---- MODULE Spec2Model ----
(***************************************************************************)
(* Response caching middleware of the API scaffold: the Redis connection   *)
(* manager with its availability flag, the cache key derivation, the       *)
(* caching interceptor (bypass / hit / miss / error), the deferred store   *)
(* write, pattern invalidation, statistics and the diagnostic endpoints.   *)
(*                                                                         *)
(* One HTTP request occupies one slot of reqs.  Node runs a handler        *)
(* without interruption up to its next await, so every action is the code  *)
(* between two awaits.  The cache connection is one FIFO pipeline, so a    *)
(* store command takes effect, or fails, in the step that completes it.    *)
(***************************************************************************)
EXTENDS Naturals, Sequences, FiniteSets, TLC

\* Number of requests that can be in flight (or answered and not yet
\* replaced by a later request) at the same time.
MaxSlots == 2

Slots == 1..MaxSlots

\* Stand-ins for two UUIDs: both pass z.string().uuid().
UserIds == {<<"a">>, <<"b">>}

\* One playlist identifier is enough to exercise the playlist route.
PlaylistIds == {<<"p">>}

\* null: no text / no value.
None == <<"null">>

\* No payload sent yet.
NoBody == [message |-> ""]

\* NODE_ENV values.
Envs == {"development", "production", "test"}

VARIABLES
  redisAvailable,     \* RedisManager.redisAvailable
  cacheStatus,        \* state of the cache connection (ioredis status)
  store,              \* database 0: key -> [val, ttl]
  spotifyConfigured,  \* spotifyService.isConfigured()
  nodeEnv,            \* config.env
  reqs,               \* slot -> request being served / last answered
  peerStatus,         \* state of the logs and pub/sub connections
  lastEvent           \* history: the last event the cache connection emitted

vars == <<redisAvailable, cacheStatus, store, spotifyConfigured, nodeEnv, reqs,
          peerStatus, lastEvent>>

\* The connections of RedisManager beside this.cache.
Peers == {"logs", "pubsub"}

----------------------------------------------------------------------------
\* JSON text and parsing

\* JSON.stringify(data): the text of a payload.
Stringify(data) == <<"json", data>>

\* Whether JSON.parse accepts the text.
Parseable(text) == Len(text) = 2 /\ text[1] = "json"

\* JSON.parse(text) of a parseable text.
Parse(text) == text[2]

----------------------------------------------------------------------------
\* Routes and their cache options

\* cacheMiddleware(options) as registered by each route; "plain" and "skip"
\* are registrations with the defaults and with skipCache: true.
DefaultTtl == 300

UserTtl == 600

ListTtl == 300

PlaylistTtl == 1800

RouteOptions(route) ==
  CASE route = "user"       -> [ttl |-> UserTtl, keyPrefix |-> "user", skipCache |-> FALSE]
    [] route = "users_list" -> [ttl |-> ListTtl, keyPrefix |-> "users_list", skipCache |-> FALSE]
    [] route = "playlist"   -> [ttl |-> PlaylistTtl, keyPrefix |-> "playlist", skipCache |-> FALSE]
    [] route = "plain"      -> [ttl |-> DefaultTtl, keyPrefix |-> "api", skipCache |-> FALSE]
    [] route = "skip"       -> [ttl |-> DefaultTtl, keyPrefix |-> "api", skipCache |-> TRUE]

\* A URL that leaves the identifier out (the route's mount path).
OriginalUrlWithoutId(route, id) ==
  CASE route = "user"       -> <<"/api/users/">>
    [] route = "users_list" -> <<"/api/users">>
    [] route = "playlist"   -> <<"/api/playlists/">>
    [] OTHER                -> <<"/api/items">>

\* req.originalUrl as a sequence of characters/tokens.
OriginalUrl(route, id) ==
  CASE route = "user"       -> <<"/api/users/">> \o id
    [] route = "users_list" -> <<"/api/users">>
    [] route = "playlist"   -> <<"/api/playlists/">> \o id
    [] OTHER                -> <<"/api/items">>

\* req.originalUrl of a request with a raw query string.
WithQuery(url, raw) == IF raw = <<>> THEN url ELSE url \o <<"?">> \o raw

\* Index of the first "&" of a raw query string, or one past its end.
RECURSIVE FirstAmp(_, _)
FirstAmp(raw, k) ==
  IF k > Len(raw) \/ raw[k] = "&" THEN k ELSE FirstAmp(raw, k + 1)

\* req.query: the raw query string name=value&name=value parsed into the
\* pairs of an object, in the order the names appear (a name without a
\* value gets the empty string).
RECURSIVE ParseQs(_)
ParseQs(raw) ==
  IF raw = <<>> THEN <<>>
  ELSE LET amp  == FirstAmp(raw, 1)
           part == SubSeq(raw, 1, amp - 1)
           rest == SubSeq(raw, amp + 1, Len(raw))
           pair == IF Len(part) >= 3 /\ part[2] = "=" THEN <<part[1], part[3]>>
                   ELSE <<part[1], "">>
       IN  IF part = <<>> THEN ParseQs(rest) ELSE <<pair>> \o ParseQs(rest)

\* JSON.stringify(req.query): {"name":"value",...} in the object's order.
RECURSIVE StringifyPairs(_)
StringifyPairs(q) ==
  IF q = <<>> THEN <<>>
  ELSE <<"\"", q[1][1], "\"", ":", "\"", q[1][2], "\"">>
       \o (IF Len(q) > 1 THEN <<",">> ELSE <<>>) \o StringifyPairs(Tail(q))

StringifyQuery(q) == <<"{">> \o StringifyPairs(q) \o <<"}">>

\* A key derivation that uses the path alone.
generateCacheKeyWithoutQuery(method, url, query, prefix) ==
  LET path == SubSeq(url, 1, CHOOSE k \in 0..Len(url) :
                               /\ k = Len(url) \/ url[k + 1] = "?"
                               /\ \A m \in 1..k : url[m] # "?")
  IN  IF prefix # "" THEN <<prefix, ":", method, ":">> \o path
                     ELSE <<method, ":">> \o path

\* generateCacheKey(req, prefix): prefix:METHOD:originalUrl[:JSON(query)].
generateCacheKey(method, url, query, prefix) ==
  LET baseKey     == <<method, ":">> \o url
      queryString == IF query # <<>> THEN <<":">> \o StringifyQuery(query) ELSE <<>>
  IN  IF prefix # "" THEN <<prefix, ":">> \o baseKey \o queryString
                     ELSE baseKey \o queryString

\* The key of the request in slot record r.
KeyOf(r) ==
  generateCacheKey(r.method, WithQuery(OriginalUrl(r.route, r.id), r.query),
                   ParseQs(r.query), RouteOptions(r.route).keyPrefix)

\* Redis glob matching for the patterns the code uses: literal text
\* followed by a single trailing "*".
IsPrefix(p, s) == Len(p) <= Len(s) /\ SubSeq(s, 1, Len(p)) = p

GlobMatch(pattern, key) == IsPrefix(pattern, key)

\* A pattern that leaves the identifier out.
UserPatternAnyUser(id) == <<"user", ":", "GET", ":", "/api/users/">>

\* `user:GET:/api/users/${req.params.id}*` without its trailing star.
UserPattern(id) == <<"user", ":", "GET", ":", "/api/users/">> \o id

----------------------------------------------------------------------------
\* Request records

\* No request body.
NoInput == [none |-> TRUE]

IdleReq ==
  [kind |-> "idle", method |-> "", route |-> "", id |-> <<>>, pc |-> "idle",
   query |-> <<>>, input |-> NoInput, nextCalls |-> 0, nextErr |-> FALSE,
   availAtEntry |-> FALSE, xcache |-> "", xkey |-> <<>>, status |-> 0,
   body |-> NoBody, cachedResponse |-> None, lookups |-> 0, handlerCalls |-> 0,
   jsonOverridden |-> FALSE, wr |-> "none", wrData |-> NoBody,
   keys |-> {}, ret |-> 0, threw |-> FALSE,
   pong |-> [cache |-> FALSE, logs |-> FALSE, pubsub |-> FALSE],
   stats |-> [totalKeys |-> 0, memoryUsage |-> ""],
   followed |-> FALSE, dirty |-> FALSE, inv |-> "none", closed |-> "no",
   overwrote |-> FALSE]

NewReq(kind, method, route, id) ==
  [IdleReq EXCEPT !.kind = kind, !.method = method, !.route = route,
                  !.id = id, !.pc = "new", !.availAtEntry = redisAvailable]

\* History kept with the requests (not program state):
\*   availAtEntry  the flag when the request arrived;
\*   followed      on an answered PATCH: a GET for its identifier has
\*                 arrived since;
\*   dirty         on an answered PATCH: a write to a key of its pattern
\*                 has executed since its cache.keys enumeration;
\*   inv           on a GET: "none", or whether the invalidation it is the
\*                 next GET after is still "clean" or became "dirty";
\*   closed        "no", or the state of the request's write when its
\*                 client went away;
\*   overwrote     the request's write replaced an entry whose text could
\*                 not be parsed.

\* An answered PATCH for the identifier whose invalidateCache found the
\* store available and did not fail, and that no GET has followed yet.
CompletedInv(r, id) ==
  /\ r.kind = "patch" /\ r.pc = "done" /\ r.id = id /\ ~r.nextErr
  /\ r.availAtEntry /\ ~r.threw /\ ~r.followed

\* What the GET arriving now for the identifier follows.
InvAt(id) ==
  IF \E k \in Slots : CompletedInv(reqs[k], id) /\ ~reqs[k].dirty THEN "clean"
  ELSE IF \E k \in Slots : CompletedInv(reqs[k], id) THEN "dirty"
  ELSE "none"

\* The record of another slot when a GET for the identifier arrives.
NoteGet(r, id) ==
  IF CompletedInv(r, id) THEN [r EXCEPT !.followed = TRUE] ELSE r

\* The record of another slot when a write to the key executes.
NoteWrite(r, key) ==
  IF /\ r.kind = "patch" /\ ~r.nextErr /\ ~r.followed /\ GlobMatch(UserPattern(r.id), key)
     /\ (r.pc = "done" \/ (r.pc = "del" /\ key \notin r.keys))
  THEN [r EXCEPT !.dirty = TRUE]
  ELSE IF r.kind = "cached" /\ r.pc = "get" /\ r.inv = "clean" /\ KeyOf(r) = key
  THEN [r EXCEPT !.inv = "dirty"]
  ELSE r

\* A slot can take a new request once its request is answered and the
\* write it scheduled with setImmediate has run.
Free(i) == reqs[i].pc \in {"idle", "done"} /\ reqs[i].wr # "scheduled"

\* The process after start-up: lazyConnect leaves the connections
\* unopened, the flag is false, nothing is cached, no request has arrived.
InitWith(configured, envs) ==
  /\ redisAvailable = FALSE
  /\ cacheStatus = "wait"
  /\ store = <<>>
  /\ spotifyConfigured \in configured
  /\ nodeEnv \in envs
  /\ reqs = [i \in Slots |-> IdleReq]
  /\ peerStatus = [c \in Peers |-> "wait"]
  /\ lastEvent = "none"

Init == InitWith({TRUE}, {"development"})


----------------------------------------------------------------------------
\* The cache connection and the availability flag

\* A command reaches the store only over an established connection.
StoreUp == cacheStatus = "ready"

\* this.cache.on('connect'): the connection attempt succeeded.
Connect ==
  /\ cacheStatus = "connecting"
  /\ cacheStatus' = "ready"
  /\ redisAvailable' = TRUE
  /\ lastEvent' = "connect"
  /\ UNCHANGED <<store, spotifyConfigured, nodeEnv, reqs, peerStatus>>

\* The transport breaks (server gone, network cut, cache.disconnect()); the
\* client has not yet delivered the 'close' event.
Drop ==
  /\ cacheStatus = "ready"
  /\ cacheStatus' = "lost"
  /\ UNCHANGED <<redisAvailable, store, spotifyConfigured, nodeEnv, reqs, peerStatus, lastEvent>>

\* An error handler that leaves the flag as it is.
ConnErrorKeepsFlag ==
  /\ cacheStatus \in {"connecting", "lost"}
  /\ lastEvent' = "error"
  /\ UNCHANGED <<redisAvailable, cacheStatus, store, spotifyConfigured, nodeEnv, reqs, peerStatus>>

\* this.cache.on('error').
ConnError ==
  /\ cacheStatus \in {"connecting", "lost"}
  /\ redisAvailable' = FALSE
  /\ lastEvent' = "error"
  /\ UNCHANGED <<cacheStatus, store, spotifyConfigured, nodeEnv, reqs, peerStatus>>

\* this.cache.on('close'); the client then retries the connection.
Close ==
  /\ cacheStatus = "lost"
  /\ cacheStatus' = "connecting"
  /\ redisAvailable' = FALSE
  /\ lastEvent' = "close"
  /\ UNCHANGED <<store, spotifyConfigured, nodeEnv, reqs, peerStatus>>

\* this.logs.on('connect') / this.pubsub.on('connect'): logged only.
PeerConnect(c) ==
  /\ peerStatus[c] = "connecting"
  /\ peerStatus' = [peerStatus EXCEPT ![c] = "ready"]
  /\ UNCHANGED <<redisAvailable, cacheStatus, store, spotifyConfigured, nodeEnv, reqs, lastEvent>>

\* The transport of the logs or pub/sub connection breaks.
PeerDrop(c) ==
  /\ peerStatus[c] = "ready"
  /\ peerStatus' = [peerStatus EXCEPT ![c] = "lost"]
  /\ UNCHANGED <<redisAvailable, cacheStatus, store, spotifyConfigured, nodeEnv, reqs, lastEvent>>

\* this.logs.on('error') / this.pubsub.on('error'): logged only; the client
\* then retries the connection.
PeerError(c) ==
  /\ peerStatus[c] = "lost"
  /\ peerStatus' = [peerStatus EXCEPT ![c] = "connecting"]
  /\ UNCHANGED <<redisAvailable, cacheStatus, store, spotifyConfigured, nodeEnv, reqs, lastEvent>>

\* Another client of the shared database stores text that is not JSON
\* under a key of the cache.
ForeignText == <<"not json">>

ForeignWrite(keys) ==
  /\ StoreUp
  /\ \E key \in keys :
       /\ store' = [k \in DOMAIN store \cup {key} |->
                      IF k = key THEN [val |-> ForeignText, ttl |-> 0] ELSE store[k]]
       /\ reqs' = [k \in Slots |-> NoteWrite(reqs[k], key)]
  /\ UNCHANGED <<redisAvailable, cacheStatus, spotifyConfigured, nodeEnv, peerStatus, lastEvent>>

\* The store drops an entry whose TTL has elapsed.
Expire ==
  /\ \E k \in DOMAIN store :
       store' = [x \in DOMAIN store \ {k} |-> store[x]]
  /\ UNCHANGED <<redisAvailable, cacheStatus, spotifyConfigured, nodeEnv, reqs, peerStatus, lastEvent>>

----------------------------------------------------------------------------
\* Downstream handlers and the response terminator

\* A terminator that holds the response back until the write has run.
ResJsonAwaitsWrite(r, s, data) ==
  LET schedule == r.jsonOverridden /\ redisAvailable
  IN  [r EXCEPT !.status = IF schedule THEN 0 ELSE s,
                !.body = data, !.pc = "done",
                !.wr = IF schedule THEN "scheduled" ELSE r.wr,
                !.wrData = IF schedule THEN data ELSE r.wrData]

\* An override that schedules the write without looking at the flag.
ResJsonNoAvailabilityCheck(r, s, data) ==
  LET schedule == r.jsonOverridden
  IN  [r EXCEPT !.status = s, !.body = data, !.pc = "done",
                !.wr = IF schedule THEN "scheduled" ELSE r.wr,
                !.wrData = IF schedule THEN data ELSE r.wrData]

\* res.status(s).json(data) called by whoever answers request r.  On a
\* MISS request res.json is the override of the interceptor: it schedules
\* the store write with setImmediate when the flag is set, then calls the
\* original res.json.
ResJson(r, s, data) ==
  LET schedule == r.jsonOverridden /\ redisAvailable
  IN  [r EXCEPT !.status = s, !.body = data, !.pc = "done",
                !.wr = IF schedule THEN "scheduled" ELSE r.wr,
                !.wrData = IF schedule THEN data ELSE r.wrData]

\* GET /users/:id handler.
UserPayload(r) ==
  [message |-> "User retrieved successfully", userId |-> r.id,
   cached |-> r.xcache = "HIT"]

\* GET /users handler (default page).
ListPayload(r) ==
  LET q    == ParseQs(r.query)
      page == IF \E k \in 1..Len(q) : q[k][1] = "page"
              THEN q[CHOOSE k \in 1..Len(q) : q[k][1] = "page"][2] ELSE "1"
  IN  [message |-> "Users retrieved successfully", page |-> page,
       cached |-> r.xcache = "HIT"]

\* A handler behind cacheMiddleware() / cacheMiddleware({skipCache: true}).
ItemPayload(r) == [message |-> "ok", cached |-> r.xcache = "HIT"]

\* GET /playlists/:id handler answering without calling Spotify.
PlaylistUnconfigured == [message |-> "Spotify API not configured"]

\* The downstream handler of the route runs (next() of the interceptor).
Handler(r0) ==
  LET r == [r0 EXCEPT !.handlerCalls = r0.handlerCalls + 1]
  IN  CASE r.route = "user"       -> ResJson(r, 200, UserPayload(r))
        [] r.route = "users_list" -> ResJson(r, 200, ListPayload(r))
        [] r.route = "playlist"   ->
             IF spotifyConfigured THEN [r EXCEPT !.pc = "fetch"]
             ELSE ResJson(r, 503, PlaylistUnconfigured)
        [] OTHER                  -> ResJson(r, IF r.method = "POST" THEN 201 ELSE 200,
                                             ItemPayload(r))

----------------------------------------------------------------------------
\* Request validation and the error handler

\* z.string().uuid(): the stand-ins of UserIds are the well-formed ones.
IsUuid(id) == id \in UserIds

\* Lengths the schemas require.
MinUsername == 3

MaxUsername == 50

MinPassword == 8

LowerCase == {"a", "d", "e", "j", "k", "o", "r", "s", "w"}

UpperCase == {"P"}

Digits == {"0"}

\* username: z.string().min(3).max(50).
UsernameOk(u) == Len(u) >= MinUsername /\ Len(u) <= MaxUsername

\* email: z.string().email(): something, "@", something.
EmailOk(e) == \E k \in 2..(Len(e) - 1) : e[k] = "@" /\ \A m \in 1..Len(e) : e[m] = "@" => m = k

\* password: at least 8 characters, one lower case, one upper case, one digit.
PasswordOk(pw) ==
  /\ Len(pw) >= MinPassword
  /\ \E k \in 1..Len(pw) : pw[k] \in LowerCase
  /\ \E k \in 1..Len(pw) : pw[k] \in UpperCase
  /\ \E k \in 1..Len(pw) : pw[k] \in Digits

\* Whether the request satisfies the schema (a field absent from the body
\* is a field absent from the record).
createUserSchema(r) ==
  /\ {"username", "email", "password"} \subseteq DOMAIN r.input
  /\ UsernameOk(r.input.username)
  /\ EmailOk(r.input.email)
  /\ PasswordOk(r.input.password)

getUserSchema(r) == IsUuid(r.id)

updateUserSchema(r) ==
  /\ IsUuid(r.id)
  /\ "username" \in DOMAIN r.input => UsernameOk(r.input.username)
  /\ "email" \in DOMAIN r.input => EmailOk(r.input.email)

\* Request bodies the routes are exercised with.
ValidUser ==
  [username |-> <<"j", "o", "e">>, email |-> <<"joe", "@", "example.com">>,
   password |-> <<"P", "a", "s", "s", "w", "0", "r", "d">>]

CreateBodies ==
  {ValidUser, [ValidUser EXCEPT !.username = <<"a">>],
   [ValidUser EXCEPT !.email = <<"invalid-email">>],
   [ValidUser EXCEPT !.password = <<"w", "e", "a", "k">>]}

ValidUpdate == [email |-> <<"joe", "@", "example.com">>]

UpdateBodies == {ValidUpdate, [username |-> <<"j", "o">>]}

\* A string that is not a UUID.
InvalidId == <<"not-a-uuid">>

\* A validate that lets a failing request through to the route.
validateLetsThrough(r, ok) ==
  [r EXCEPT !.nextCalls = r.nextCalls + 1]

\* validate(schema): next() when the request satisfies the schema,
\* next(badRequest(...)) otherwise.  The await of parseAsync resolves
\* before any other event is delivered, so validation and what follows
\* are one step.
validate(r, ok) ==
  [r EXCEPT !.nextCalls = r.nextCalls + 1, !.nextErr = ~ok]

\* errorHandler for an AppError: its status code and {status: 'error', message}.
errorHandler(r, statusCode, message) ==
  ResJson(r, statusCode, [status |-> "error", message |-> message])

\* POST /users handler.
CreatePayload(r) == [message |-> "User created successfully", user |-> r.input]

\* POST /users arrives: validate(createUserSchema), then the handler.
ArriveCreate(i, bodies) ==
  /\ Free(i)
  /\ \E body \in bodies :
       LET r0 == [NewReq("create", "POST", "userCreate", <<>>) EXCEPT !.input = body]
           r  == validate(r0, createUserSchema(r0))
       IN  reqs' = [reqs EXCEPT ![i] =
                      IF r.nextErr THEN errorHandler(r, 400, "Validation error")
                      ELSE ResJson([r EXCEPT !.handlerCalls = 1], 201, CreatePayload(r))]
  /\ UNCHANGED <<redisAvailable, cacheStatus, store, spotifyConfigured, nodeEnv, peerStatus, lastEvent>>

----------------------------------------------------------------------------
\* The caching interceptor

\* An entry that omits the availability check.
MwEnterNoAvailabilityCheck(r) ==
  IF r.method # "GET" \/ RouteOptions(r.route).skipCache
  THEN Handler(r)
  ELSE [r EXCEPT !.pc = "get", !.lookups = r.lookups + 1]

\* An entry without the method check: every method is looked up.
MwEnterAnyMethod(r) ==
  IF RouteOptions(r.route).skipCache
  THEN Handler(r)
  ELSE IF ~redisAvailable
  THEN Handler([r EXCEPT !.xcache = "SKIP"])
  ELSE [r EXCEPT !.pc = "get", !.lookups = r.lookups + 1]

\* An entry that marks every bypass with X-Cache: SKIP.
MwEnterMarksEveryBypass(r) ==
  IF r.method # "GET" \/ RouteOptions(r.route).skipCache \/ ~redisAvailable
  THEN Handler([r EXCEPT !.xcache = "SKIP"])
  ELSE [r EXCEPT !.pc = "get", !.lookups = r.lookups + 1]

\* cacheMiddleware up to its first await: the bypass checks, then the
\* lookup is issued.
MwEnter(r) ==
  IF r.method # "GET" \/ RouteOptions(r.route).skipCache
  THEN Handler(r)
  ELSE IF ~redisAvailable
  THEN Handler([r EXCEPT !.xcache = "SKIP"])
  ELSE [r EXCEPT !.pc = "get", !.lookups = r.lookups + 1]

\* A catch block that answers with an error instead of falling through.
MwCatchFails(r) ==
  [r EXCEPT !.xcache = "ERROR", !.status = 500, !.pc = "done",
            !.body = [message |-> "Internal server error"]]

\* A catch block that forgets next(): the request is never handled.
MwCatchSkipsHandler(r) == [r EXCEPT !.xcache = "ERROR", !.pc = "done"]

\* A catch block that also exposes the key.
MwCatchSetsKey(r) == Handler([r EXCEPT !.xcache = "ERROR", !.xkey = KeyOf(r)])

\* A catch block that installs the caching res.json before next().
MwCatchCaches(r) == Handler([r EXCEPT !.xcache = "ERROR", !.jsonOverridden = TRUE])

\* The catch block of the interceptor.
MwCatch(r) == Handler([r EXCEPT !.xcache = "ERROR"])

\* A hit path that sets the headers but falls through to the handler.
MwAfterGetFallsThrough(r, text) ==
  IF text # None /\ Parseable(text)
  THEN Handler([r EXCEPT !.cachedResponse = text, !.xcache = "HIT",
                         !.xkey = KeyOf(r)])
  ELSE IF text # None THEN MwCatch([r EXCEPT !.cachedResponse = text])
  ELSE Handler([r EXCEPT !.xcache = "MISS", !.xkey = KeyOf(r),
                         !.jsonOverridden = TRUE])

\* A hit path that answers a cached "not found" payload with 404 again.
MwAfterGetRestoresStatus(r, text) ==
  IF text # None
  THEN IF Parseable(text)
       THEN [r EXCEPT !.cachedResponse = text, !.xcache = "HIT",
                      !.xkey = KeyOf(r),
                      !.status = IF Parse(text).message = "Playlist not found"
                                 THEN 404 ELSE 200,
                      !.body = Parse(text), !.pc = "done"]
       ELSE MwCatch([r EXCEPT !.cachedResponse = text])
  ELSE Handler([r EXCEPT !.xcache = "MISS", !.xkey = KeyOf(r),
                         !.jsonOverridden = TRUE])

\* A miss path with a per-key lock: a request that misses while another
\* request has a write pending for the same key does not write.
MwAfterGetSingleFlight(r, text) ==
  IF text # None
  THEN IF Parseable(text)
       THEN [r EXCEPT !.cachedResponse = text, !.xcache = "HIT",
                      !.xkey = KeyOf(r), !.status = 200,
                      !.body = Parse(text), !.pc = "done"]
       ELSE MwCatch([r EXCEPT !.cachedResponse = text])
  ELSE Handler([r EXCEPT !.xcache = "MISS", !.xkey = KeyOf(r),
                         !.jsonOverridden =
                            ~\E k \in Slots : /\ reqs[k].wr = "scheduled"
                                              /\ reqs[k].xkey = KeyOf(r)])

\* cacheMiddleware after `await cache.get(cacheKey)` returned text or null.
MwAfterGet(r, text) ==
  IF text # None
  THEN IF Parseable(text)
       THEN [r EXCEPT !.cachedResponse = text, !.xcache = "HIT",
                      !.xkey = KeyOf(r), !.status = 200,
                      !.body = Parse(text), !.pc = "done"]
       ELSE MwCatch([r EXCEPT !.cachedResponse = text])
  ELSE Handler([r EXCEPT !.xcache = "MISS", !.xkey = KeyOf(r),
                         !.jsonOverridden = TRUE])

\* A request for one of the given routes, each registered behind
\* cacheMiddleware, arrives and runs to its first await.

RouteIds(route, ids) ==
  CASE route = "user"     -> ids
    [] route = "playlist" -> PlaylistIds
    [] OTHER              -> {<<>>}

\* Raw query strings GET /users is exercised with.
ListQueries ==
  {<<>>,
   <<"page", "=", "1", "&", "limit", "=", "5">>,
   <<"page", "=", "2", "&", "limit", "=", "5">>,
   <<"limit", "=", "5", "&", "page", "=", "1">>}

RouteQueries(route) == IF route = "users_list" THEN ListQueries ELSE {<<>>}

ArriveCached(i, routes, ids) ==
  /\ Free(i)
  /\ \E route \in routes :
     \E method \in (IF route = "plain" THEN {"GET", "POST"} ELSE {"GET"}) :
     \E id \in RouteIds(route, ids) :
     \E raw \in RouteQueries(route) :
        LET r0 == [NewReq("cached", method, route, id) EXCEPT
                     !.query = raw,
                     !.inv = IF route = "user" THEN InvAt(id) ELSE "none"]
            r  == IF route = "user" THEN validate(r0, getUserSchema(r0)) ELSE r0
        IN  reqs' = [k \in Slots |->
                       IF k = i
                       THEN IF r.nextErr THEN errorHandler(r, 400, "Validation error")
                            ELSE MwEnter(r)
                       ELSE IF route = "user" THEN NoteGet(reqs[k], id)
                       ELSE reqs[k]]
  /\ UNCHANGED <<redisAvailable, cacheStatus, store, spotifyConfigured, nodeEnv, peerStatus, lastEvent>>

\* cache.get completes: the store answers.
GetReply(i) ==
  /\ reqs[i].pc = "get"
  /\ StoreUp
  /\ LET k    == KeyOf(reqs[i])
         text == IF k \in DOMAIN store THEN store[k].val ELSE None
     IN  reqs' = [reqs EXCEPT ![i] = MwAfterGet(reqs[i], text)]
  /\ UNCHANGED <<redisAvailable, cacheStatus, store, spotifyConfigured, nodeEnv, peerStatus, lastEvent>>

\* cache.get rejects: the connection is not established.
GetFail(i) ==
  /\ reqs[i].pc = "get"
  /\ ~StoreUp
  /\ reqs' = [reqs EXCEPT ![i] = MwCatch(reqs[i])]
  /\ UNCHANGED <<redisAvailable, cacheStatus, store, spotifyConfigured, nodeEnv, peerStatus, lastEvent>>

\* The playlist handler after `await spotifyService.getPlaylistTracks`.
PlaylistOutcomes == {200, 404, 500}

PlaylistPayload(r, outcome) ==
  CASE outcome = 200 -> [message |-> "Playlist tracks retrieved successfully",
                         playlistId |-> r.id, cached |-> r.xcache = "HIT"]
    [] outcome = 404 -> [message |-> "Playlist not found"]
    [] OTHER         -> [message |-> "Failed to fetch playlist tracks"]

FetchReply(i) ==
  /\ reqs[i].pc = "fetch"
  /\ \E outcome \in PlaylistOutcomes :
       reqs' = [reqs EXCEPT ![i] =
                  ResJson(reqs[i], outcome, PlaylistPayload(reqs[i], outcome))]
  /\ UNCHANGED <<redisAvailable, cacheStatus, store, spotifyConfigured, nodeEnv, peerStatus, lastEvent>>

\* A write that stores the payload as it would read on a hit.
WriteEntryMarkedCached(r) ==
  [val |-> Stringify([r.wrData EXCEPT !.cached = TRUE]),
   ttl |-> RouteOptions(r.route).ttl]

\* An entry stored with the default TTL whatever the route configures.
WriteEntryDefaultTtl(r) ==
  [val |-> Stringify(r.wrData), ttl |-> DefaultTtl]

\* The entry the deferred write of request r stores.
WriteEntry(r) ==
  [val |-> Stringify(r.wrData), ttl |-> RouteOptions(r.route).ttl]

WriteKey(r) == KeyOf(r)

\* The setImmediate callback: cache.setex(cacheKey, ttl, JSON.stringify(data)).
DeferredWrite(i) ==
  /\ reqs[i].wr = "scheduled"
  /\ StoreUp
  /\ store' = [k \in DOMAIN store \cup {WriteKey(reqs[i])} |->
                 IF k = WriteKey(reqs[i]) THEN WriteEntry(reqs[i]) ELSE store[k]]
  /\ reqs' = [k \in Slots |->
                IF k = i
                THEN [reqs[i] EXCEPT
                        !.wr = "ok",
                        !.overwrote =
                           /\ WriteKey(reqs[i]) \in DOMAIN store
                           /\ ~Parseable(store[WriteKey(reqs[i])].val)]
                ELSE NoteWrite(reqs[k], WriteKey(reqs[i]))]
  /\ UNCHANGED <<redisAvailable, cacheStatus, spotifyConfigured, nodeEnv, peerStatus, lastEvent>>

\* cache.setex rejects: logged as 'Failed to cache response'.
DeferredWriteFail(i) ==
  /\ reqs[i].wr = "scheduled"
  /\ ~StoreUp
  /\ reqs' = [reqs EXCEPT ![i].wr = "failed"]
  /\ UNCHANGED <<redisAvailable, cacheStatus, store, spotifyConfigured, nodeEnv, peerStatus, lastEvent>>

\* A client whose departure cancels the write still pending.
ClientCloseCancels(i) ==
  /\ reqs[i].pc # "idle"
  /\ reqs[i].closed = "no"
  /\ reqs' = [reqs EXCEPT ![i].closed = reqs[i].wr,
                          ![i].wr = IF reqs[i].wr = "scheduled" THEN "none"
                                    ELSE reqs[i].wr]
  /\ UNCHANGED <<redisAvailable, cacheStatus, store, spotifyConfigured, nodeEnv, peerStatus, lastEvent>>

\* The client of a request goes away.  The interceptor registers no
\* listener on the request or the response, and the setImmediate callback
\* holds only cacheKey, ttl and data.
ClientClose(i) ==
  /\ reqs[i].pc # "idle"
  /\ reqs[i].closed = "no"
  /\ reqs' = [reqs EXCEPT ![i].closed = reqs[i].wr]
  /\ UNCHANGED <<redisAvailable, cacheStatus, store, spotifyConfigured, nodeEnv, peerStatus, lastEvent>>

----------------------------------------------------------------------------
\* Invalidation: PATCH /users/:id

\* An enumeration that ignores the pattern.
StoreKeysAll(pattern) == DOMAIN store

\* Keys of the store matching a pattern: cache.keys(pattern).
StoreKeys(pattern) == {k \in DOMAIN store : GlobMatch(pattern, k)}

\* A delete that removes nothing.
StoreWithoutNothing(ks) == store

\* The store without the given keys: cache.del(...keys).
StoreWithout(ks) == [k \in DOMAIN store \ ks |-> store[k]]

\* The PATCH handler answers 200 whatever invalidateCache did: ret is the
\* count invalidateCache returned, threw whether it rethrew a failure.
PatchPayload(r) ==
  [message |-> "User updated successfully", userId |-> r.id, updates |-> r.input]

\* A PATCH handler without the try/catch around invalidateCache: the
\* failure reaches the global error handler.
PatchRespondPropagates(r, ret, threw) ==
  IF threw
  THEN ResJson([r EXCEPT !.threw = TRUE, !.keys = {}], 500,
               [message |-> "Internal server error"])
  ELSE ResJson([r EXCEPT !.ret = ret, !.keys = {}], 200, PatchPayload(r))

PatchRespond(r, ret, threw) ==
  ResJson([r EXCEPT !.ret = ret, !.threw = threw, !.keys = {}], 200,
          PatchPayload(r))

\* The pattern the request in record r invalidates.
PatternOf(r) == UserPattern(r.id)

\* PATCH /users/:id arrives: validate, then invalidateCache up to its
\* first await (it returns 0 at once when the flag is not set).
ArrivePatch(i, ids, bodies) ==
  /\ Free(i)
  /\ \E id \in ids :
     \E body \in bodies :
       LET r0 == [NewReq("patch", "PATCH", "userPatch", id) EXCEPT !.input = body]
           r  == validate(r0, updateUserSchema(r0))
       IN  reqs' = [reqs EXCEPT ![i] =
                      IF r.nextErr THEN errorHandler(r, 400, "Validation error")
                      ELSE IF ~redisAvailable THEN PatchRespond(r, 0, FALSE)
                      ELSE [r EXCEPT !.pc = "keys"]]
  /\ UNCHANGED <<redisAvailable, cacheStatus, store, spotifyConfigured, nodeEnv, peerStatus, lastEvent>>

\* cache.keys(pattern) answers; with no key invalidateCache returns 0,
\* otherwise it issues cache.del(...keys).
KeysReply(i) ==
  /\ reqs[i].pc = "keys"
  /\ reqs[i].kind = "patch"
  /\ StoreUp
  /\ LET ks == StoreKeys(PatternOf(reqs[i]))
     IN  reqs' = [reqs EXCEPT ![i] =
                    IF ks = {} THEN PatchRespond(reqs[i], 0, FALSE)
                    ELSE [reqs[i] EXCEPT !.pc = "del", !.keys = ks]]
  /\ UNCHANGED <<redisAvailable, cacheStatus, store, spotifyConfigured, nodeEnv, peerStatus, lastEvent>>

\* A deletion by pattern: whatever matches when the command executes is
\* removed and counted.
DelReplyByPattern(i) ==
  /\ reqs[i].pc = "del"
  /\ reqs[i].kind = "patch"
  /\ StoreUp
  /\ store' = StoreWithout(StoreKeys(PatternOf(reqs[i])))
  /\ reqs' = [reqs EXCEPT ![i] =
                PatchRespond(reqs[i], Cardinality(StoreKeys(PatternOf(reqs[i]))), FALSE)]
  /\ UNCHANGED <<redisAvailable, cacheStatus, spotifyConfigured, nodeEnv, peerStatus, lastEvent>>

\* cache.del answers with the number of keys it removed.
DelReply(i) ==
  /\ reqs[i].pc = "del"
  /\ reqs[i].kind = "patch"
  /\ StoreUp
  /\ store' = StoreWithout(reqs[i].keys)
  /\ reqs' = [reqs EXCEPT ![i] =
                PatchRespond(reqs[i], Cardinality(reqs[i].keys \cap DOMAIN store), FALSE)]
  /\ UNCHANGED <<redisAvailable, cacheStatus, spotifyConfigured, nodeEnv, peerStatus, lastEvent>>

\* cache.keys or cache.del rejects: invalidateCache logs and rethrows, the
\* PATCH handler catches the failure and answers.
InvalidateFail(i) ==
  /\ reqs[i].pc \in {"keys", "del"}
  /\ reqs[i].kind = "patch"
  /\ ~StoreUp
  /\ reqs' = [reqs EXCEPT ![i] = PatchRespond(reqs[i], 0, TRUE)]
  /\ UNCHANGED <<redisAvailable, cacheStatus, store, spotifyConfigured, nodeEnv, peerStatus, lastEvent>>

----------------------------------------------------------------------------
\* Statistics, health and the cache management endpoints

\* The result getCacheStats returns when the flag is not set.
ZeroStats == [totalKeys |-> 0, memoryUsage |-> "unavailable"]

\* The result getCacheStats computes from the three info replies;
\* totalKeys was read by the keyspace reply.
StatsOf(n) == [totalKeys |-> n, memoryUsage |-> "used"]

\* A getCacheStats that contacts the store whatever the flag.
StatsEnterNoAvailabilityCheck(r) == [r EXCEPT !.pc = "info-memory"]

\* getCacheStats up to its first await.
StatsEnter(r) ==
  IF ~redisAvailable THEN [r EXCEPT !.stats = ZeroStats, !.pc = "stats-done"]
  ELSE [r EXCEPT !.pc = "info-memory"]

\* A /health handler without its catch: the failure of getCacheStats
\* reaches the error handler.
StatsRespondFailsHealth(r) ==
  IF r.threw
  THEN ResJson(r, 500, [status |-> "error", message |-> "Failed to get cache stats"])
  ELSE IF r.kind = "health"
  THEN ResJson(r, 200, [status |-> "ok", redis |-> r.pong, cache |-> r.stats])
  ELSE ResJson(r, 200, [message |-> "Cache statistics retrieved", cache |-> r.stats])

\* The redis field of the /health fallback response.
NoPong == [cache |-> FALSE, logs |-> FALSE, pubsub |-> FALSE]

\* The caller of getCacheStats answers.  GET /health answers 200 with the
\* statistics, or with the zeroed ones when getCacheStats threw;
\* GET /cache/stats answers 200, or 500 when getCacheStats threw.
StatsRespond(r) ==
  IF r.kind = "health"
  THEN IF r.threw
       THEN ResJson(r, 200, [status |-> "ok", redis |-> NoPong,
                             cache |-> ZeroStats, note |-> "Redis unavailable"])
       ELSE ResJson(r, 200, [status |-> "ok", redis |-> r.pong, cache |-> r.stats])
  ELSE IF r.threw
       THEN ResJson(r, 500, [message |-> "Failed to get cache stats"])
       ELSE ResJson(r, 200, [message |-> "Cache statistics retrieved",
                             cache |-> r.stats])

\* Issuing a command on the lazily connected client opens the connection.
AfterCommand(status) == IF status = "wait" THEN "connecting" ELSE status

\* GET /health arrives: healthCheck pings the connection (whatever the flag).
ArriveHealth(i) ==
  /\ Free(i)
  /\ reqs' = [reqs EXCEPT ![i] =
                [NewReq("health", "GET", "health", <<>>) EXCEPT !.pc = "ping"]]
  /\ cacheStatus' = AfterCommand(cacheStatus)
  /\ peerStatus' = [c \in Peers |-> AfterCommand(peerStatus[c])]
  /\ UNCHANGED <<redisAvailable, store, spotifyConfigured, nodeEnv, lastEvent>>

\* RedisManager.healthCheck: each connection reports true when its ping
\* returned PONG; a rejected ping is absorbed by Promise.allSettled.
healthCheck ==
  [cache |-> StoreUp, logs |-> peerStatus["logs"] = "ready",
   pubsub |-> peerStatus["pubsub"] = "ready"]

\* The pings have settled; the handler goes on to getCacheStats.
PingSettled(i) ==
  /\ reqs[i].pc = "ping"
  /\ reqs' = [reqs EXCEPT ![i] =
                LET r == StatsEnter([reqs[i] EXCEPT !.pong = healthCheck])
                IN  IF r.pc = "stats-done" THEN StatsRespond(r) ELSE r]
  /\ UNCHANGED <<redisAvailable, cacheStatus, store, spotifyConfigured, nodeEnv, peerStatus, lastEvent>>

\* No route matched: the 404 handler passes notFound() to the error handler.
NotFound(r) == errorHandler(r, 404, "Not Found")

\* A registration of the cache management routes everywhere but in
\* production.
isDevelopmentOrTest == nodeEnv # "production"

\* config.isDevelopment: the cache management routes are registered in
\* development only.
isDevelopment == nodeEnv = "development"

\* GET /cache/stats arrives.

ArriveStats(i) ==
  /\ Free(i)
  /\ reqs' = [reqs EXCEPT ![i] =
                LET r0 == NewReq("stats", "GET", "stats", <<>>)
                    r  == StatsEnter(r0)
                IN  IF ~isDevelopment THEN NotFound(r0)
                    ELSE IF r.pc = "stats-done" THEN StatsRespond(r) ELSE r]
  /\ UNCHANGED <<redisAvailable, cacheStatus, store, spotifyConfigured, nodeEnv, peerStatus, lastEvent>>

\* One of the three cache.info commands answers.
NextInfo(pc) ==
  CASE pc = "info-memory"   -> "info-keyspace"
    [] pc = "info-keyspace" -> "info-stats"
    [] OTHER                -> "stats-done"

InfoReply(i) ==
  /\ reqs[i].pc \in {"info-memory", "info-keyspace", "info-stats"}
  /\ StoreUp
  /\ reqs' = [reqs EXCEPT ![i] =
                LET r == [reqs[i] EXCEPT
                            !.pc = NextInfo(reqs[i].pc),
                            !.stats = IF reqs[i].pc = "info-keyspace"
                                      THEN StatsOf(Cardinality(DOMAIN store))
                                      ELSE reqs[i].stats]
                IN  IF r.pc = "stats-done" THEN StatsRespond(r) ELSE r]
  /\ UNCHANGED <<redisAvailable, cacheStatus, store, spotifyConfigured, nodeEnv, peerStatus, lastEvent>>

\* A cache.info command rejects: getCacheStats logs and rethrows.
InfoFail(i) ==
  /\ reqs[i].pc \in {"info-memory", "info-keyspace", "info-stats"}
  /\ ~StoreUp
  /\ reqs' = [reqs EXCEPT ![i] = StatsRespond([reqs[i] EXCEPT !.threw = TRUE])]
  /\ UNCHANGED <<redisAvailable, cacheStatus, store, spotifyConfigured, nodeEnv, peerStatus, lastEvent>>

\* DELETE /cache/clear?pattern=... (development only).
ClearPatterns == {<<>>, <<"user", ":">>}

ClearPayload(deleted, keys) ==
  [message |-> "Cache cleared", deleted |-> deleted, keys |-> keys]

ArriveClear(i) ==
  /\ Free(i)
  /\ \E pattern \in ClearPatterns :
       reqs' = [reqs EXCEPT ![i] =
                  LET r == NewReq("clear", "DELETE", "clear", pattern)
                  IN  IF ~isDevelopment THEN NotFound(r)
                      ELSE IF ~redisAvailable
                      THEN ResJson(r, 200, [message |-> "Cache clear skipped - Redis unavailable",
                                            deleted |-> 0, keys |-> 0])
                      ELSE [r EXCEPT !.pc = "keys"]]
  /\ UNCHANGED <<redisAvailable, cacheStatus, store, spotifyConfigured, nodeEnv, peerStatus, lastEvent>>

\* redis.cache.keys(pattern) answers in the clear handler.
ClearKeysReply(i) ==
  /\ reqs[i].pc = "keys"
  /\ reqs[i].kind = "clear"
  /\ StoreUp
  /\ LET ks == StoreKeys(reqs[i].id)
     IN  reqs' = [reqs EXCEPT ![i] =
                    IF ks = {} THEN ResJson(reqs[i], 200, ClearPayload(0, 0))
                    ELSE [reqs[i] EXCEPT !.pc = "del", !.keys = ks]]
  /\ UNCHANGED <<redisAvailable, cacheStatus, store, spotifyConfigured, nodeEnv, peerStatus, lastEvent>>

\* redis.cache.del(...keys) answers in the clear handler.
ClearDelReply(i) ==
  /\ reqs[i].pc = "del"
  /\ reqs[i].kind = "clear"
  /\ StoreUp
  /\ store' = StoreWithout(reqs[i].keys)
  /\ reqs' = [reqs EXCEPT ![i] =
                ResJson([reqs[i] EXCEPT !.keys = {}], 200,
                        ClearPayload(Cardinality(reqs[i].keys \cap DOMAIN store),
                                     Cardinality(reqs[i].keys)))]
  /\ UNCHANGED <<redisAvailable, cacheStatus, spotifyConfigured, nodeEnv, peerStatus, lastEvent>>

\* keys or del rejects in the clear handler: its catch answers 500.
ClearFail(i) ==
  /\ reqs[i].pc \in {"keys", "del"}
  /\ reqs[i].kind = "clear"
  /\ ~StoreUp
  /\ reqs' = [reqs EXCEPT ![i] =
                ResJson([reqs[i] EXCEPT !.threw = TRUE, !.keys = {}], 500,
                        [message |-> "Failed to clear cache"])]
  /\ UNCHANGED <<redisAvailable, cacheStatus, store, spotifyConfigured, nodeEnv, peerStatus, lastEvent>>

\* redis.healthCheck() called outside a request (as the start-up of the
\* integration tests does): its ping opens the lazy connection.
HealthCheckPing ==
  /\ cacheStatus = "wait"
  /\ cacheStatus' = AfterCommand(cacheStatus)
  /\ peerStatus' = [c \in Peers |-> AfterCommand(peerStatus[c])]
  /\ UNCHANGED <<redisAvailable, store, spotifyConfigured, nodeEnv, reqs, lastEvent>>

----------------------------------------------------------------------------
\* The manual setter and getter

\* ttl parameter default of setCache.
ManualTtl == 300

\* The data the setter is called with.
ManualData == [message |-> "manual"]

\* The connection after the call in record r issued its command, if it
\* did: a command on an unopened lazyConnect connection opens it.
AfterCall(r) == IF r.pc = "done" THEN cacheStatus ELSE AfterCommand(cacheStatus)

\* setCache up to its await: it returns at once when the flag is not set.
setCacheEnter(r) ==
  IF ~redisAvailable THEN [r EXCEPT !.pc = "done"]
  ELSE [r EXCEPT !.pc = "manual-setex", !.wrData = ManualData]

\* A getter that omits the availability check.
getCacheEnterNoAvailabilityCheck(r) ==
  [r EXCEPT !.pc = "manual-get", !.lookups = r.lookups + 1]

\* getCache up to its await: it returns null at once when the flag is not
\* set.
getCacheEnter(r) ==
  IF ~redisAvailable THEN [r EXCEPT !.pc = "done"]
  ELSE [r EXCEPT !.pc = "manual-get", !.lookups = r.lookups + 1]

\* setCache(key, data) is called.
CallSetCache(i, keys) ==
  /\ Free(i)
  /\ \E key \in keys :
       LET r == setCacheEnter(NewReq("setCache", "", "manual", key))
       IN  /\ reqs' = [reqs EXCEPT ![i] = r]
           /\ cacheStatus' = AfterCall(r)
  /\ UNCHANGED <<redisAvailable, store, spotifyConfigured, nodeEnv, peerStatus, lastEvent>>

\* cache.setex(key, ttl, JSON.stringify(data)) of setCache completes.
SetCacheReply(i) ==
  /\ reqs[i].pc = "manual-setex"
  /\ StoreUp
  /\ store' = [k \in DOMAIN store \cup {reqs[i].id} |->
                 IF k = reqs[i].id
                 THEN [val |-> Stringify(reqs[i].wrData), ttl |-> ManualTtl]
                 ELSE store[k]]
  /\ reqs' = [k \in Slots |->
                IF k = i THEN [reqs[i] EXCEPT !.pc = "done", !.wr = "ok"]
                ELSE NoteWrite(reqs[k], reqs[i].id)]
  /\ UNCHANGED <<redisAvailable, cacheStatus, spotifyConfigured, nodeEnv, peerStatus, lastEvent>>

\* cache.setex of setCache rejects: logged and rethrown to the caller.
SetCacheFail(i) ==
  /\ reqs[i].pc = "manual-setex"
  /\ ~StoreUp
  /\ reqs' = [reqs EXCEPT ![i] = [reqs[i] EXCEPT !.pc = "done", !.wr = "failed",
                                                  !.threw = TRUE]]
  /\ UNCHANGED <<redisAvailable, cacheStatus, store, spotifyConfigured, nodeEnv, peerStatus, lastEvent>>

\* getCache(key) is called.
CallGetCache(i, keys) ==
  /\ Free(i)
  /\ \E key \in keys :
       LET r == getCacheEnter(NewReq("getCache", "", "manual", key))
       IN  /\ reqs' = [reqs EXCEPT ![i] = r]
           /\ cacheStatus' = AfterCall(r)
  /\ UNCHANGED <<redisAvailable, store, spotifyConfigured, nodeEnv, peerStatus, lastEvent>>

\* cache.get of getCache completes: the parsed value, or null when there
\* is no entry or JSON.parse throws (the catch block returns null).
GetCacheReply(i) ==
  /\ reqs[i].pc = "manual-get"
  /\ StoreUp
  /\ LET k    == reqs[i].id
         text == IF k \in DOMAIN store THEN store[k].val ELSE None
     IN  reqs' = [reqs EXCEPT ![i] =
                    IF text # None /\ Parseable(text)
                    THEN [reqs[i] EXCEPT !.pc = "done", !.cachedResponse = text,
                                         !.ret = 1, !.body = Parse(text)]
                    ELSE [reqs[i] EXCEPT !.pc = "done", !.cachedResponse = text]]
  /\ UNCHANGED <<redisAvailable, cacheStatus, store, spotifyConfigured, nodeEnv, peerStatus, lastEvent>>

\* cache.get of getCache rejects: logged, null is returned.
GetCacheFail(i) ==
  /\ reqs[i].pc = "manual-get"
  /\ ~StoreUp
  /\ reqs' = [reqs EXCEPT ![i] = [reqs[i] EXCEPT !.pc = "done"]]
  /\ UNCHANGED <<redisAvailable, cacheStatus, store, spotifyConfigured, nodeEnv, peerStatus, lastEvent>>

----------------------------------------------------------------------------
\* Specifications

\* The connection events and the store's own expiry.
Environment ==
  \/ HealthCheckPing
  \/ Connect
  \/ Drop
  \/ ConnError
  \/ Close
  \/ Expire

\* The interceptor's steps after arrival.
Interceptor ==
  \/ \E i \in Slots : GetReply(i)
  \/ \E i \in Slots : GetFail(i)
  \/ \E i \in Slots : DeferredWrite(i)
  \/ \E i \in Slots : DeferredWriteFail(i)

\* invalidateCache's steps in the PATCH handler.
Invalidation ==
  \/ \E i \in Slots : KeysReply(i)
  \/ \E i \in Slots : DelReply(i)
  \/ \E i \in Slots : InvalidateFail(i)

\* The identifier and the key the user routes are exercised with.
OneUser == {<<"a">>}

OneUserKey == {generateCacheKey("GET", OriginalUrl("user", <<"a">>), <<>>, "user")}

\* The user routes: GET /users/:id behind the interceptor, PATCH /users/:id.
Next ==
  \/ Environment
  \/ ForeignWrite(OneUserKey)
  \/ \E i \in Slots : ArriveCached(i, {"user"}, OneUser)
  \/ Interceptor
  \/ \E i \in Slots : ArrivePatch(i, OneUser, {ValidUpdate})
  \/ Invalidation

Spec == Init /\ [][Next]_vars

\* Routes registered with cacheMiddleware() and with
\* cacheMiddleware({skipCache: true}), reached by GET and POST, beside
\* GET /users/:id.
NextMw ==
  \/ Environment
  \/ \E i \in Slots : ArriveCached(i, {"user", "plain", "skip"}, OneUser)
  \/ Interceptor

SpecMw == Init /\ [][NextMw]_vars

\* GET /playlists/:id, with and without Spotify credentials.
NextPlaylist ==
  \/ Environment
  \/ \E i \in Slots : ArriveCached(i, {"playlist"}, {})
  \/ Interceptor
  \/ \E i \in Slots : FetchReply(i)

SpecPlaylist == InitWith(BOOLEAN, {"development"}) /\ [][NextPlaylist]_vars

\* The slot that serves the diagnostic requests, one at a time.
DiagnosticSlot == {1}

\* The user routes together with /health, /cache/stats and /cache/clear
\* (one diagnostic request at a time) beside the user requests.

NextAdmin ==
  \/ Environment
  \/ \E i \in Slots \ DiagnosticSlot : ArriveCached(i, {"user"}, OneUser)
  \/ Interceptor
  \/ \E i \in Slots \ DiagnosticSlot : ArrivePatch(i, OneUser, {ValidUpdate})
  \/ Invalidation
  \/ \E i \in DiagnosticSlot : ArriveHealth(i)
  \/ \E i \in Slots : PingSettled(i)
  \/ \E i \in DiagnosticSlot : ArriveStats(i)
  \/ \E i \in Slots : InfoReply(i)
  \/ \E i \in Slots : InfoFail(i)
  \/ \E i \in DiagnosticSlot : ArriveClear(i)
  \/ \E i \in Slots : ClearKeysReply(i)
  \/ \E i \in Slots : ClearDelReply(i)
  \/ \E i \in Slots : ClearFail(i)

SpecAdmin == Init /\ [][NextAdmin]_vars

\* The same routes started in each of the environments.
SpecEnv == InitWith({TRUE}, Envs) /\ [][NextAdmin]_vars

\* The user routes with every kind of input: GET and PATCH /users/:id with
\* a well-formed and a malformed identifier, POST /users and PATCH with
\* bodies that satisfy and that violate the schema, and a route registered
\* with cacheMiddleware() that is reached by GET and POST.
SomeIds == OneUser \cup {InvalidId}

NextUsers ==
  \/ Environment
  \/ \E i \in Slots : ArriveCached(i, {"user", "plain"}, SomeIds)
  \/ Interceptor
  \/ \E i \in Slots : ArriveCreate(i, CreateBodies)
  \/ \E i \in Slots : ArrivePatch(i, SomeIds, UpdateBodies)
  \/ Invalidation

SpecUsers == Init /\ [][NextUsers]_vars

\* GET and PATCH /users/:id for two identifiers.
NextTwo ==
  \/ Environment
  \/ \E i \in Slots : ArriveCached(i, {"user"}, UserIds)
  \/ Interceptor
  \/ \E i \in Slots : ArrivePatch(i, UserIds, {ValidUpdate})
  \/ Invalidation

SpecTwo == Init /\ [][NextTwo]_vars

\* GET /health with the three connections and their events; another
\* client of the database provides the entries the statistics count.
PeerEvents ==
  \/ \E c \in Peers : PeerConnect(c)
  \/ \E c \in Peers : PeerDrop(c)
  \/ \E c \in Peers : PeerError(c)

NextHealth ==
  \/ Environment
  \/ PeerEvents
  \/ ForeignWrite(OneUserKey)
  \/ \E i \in DiagnosticSlot : ArriveHealth(i)
  \/ \E i \in Slots : PingSettled(i)
  \/ \E i \in Slots : InfoReply(i)
  \/ \E i \in Slots : InfoFail(i)

SpecHealth == Init /\ [][NextHealth]_vars

\* GET /users/:id with clients that go away.  The event loop runs every
\* setImmediate callback, and cache.setex settles: it resolves over an
\* established connection and is rejected otherwise once
\* maxRetriesPerRequest is used up.
NextLive ==
  \/ Environment
  \/ \E i \in Slots : ArriveCached(i, {"user"}, OneUser)
  \/ Interceptor
  \/ \E i \in Slots : ClientClose(i)

SpecLive ==
  /\ Init /\ [][NextLive]_vars
  /\ \A i \in Slots : WF_vars(DeferredWrite(i) \/ DeferredWriteFail(i))

\* GET /playlists/:id, whose handler answers after an await, beside
\* PATCH /users/:id, with the connection coming and going.
NextDegraded ==
  \/ Environment
  \/ ForeignWrite(OneUserKey)
  \/ \E i \in Slots : ArriveCached(i, {"playlist"}, {})
  \/ Interceptor
  \/ \E i \in Slots : FetchReply(i)
  \/ \E i \in Slots : ArrivePatch(i, OneUser, {ValidUpdate})
  \/ Invalidation

SpecDegraded == Init /\ [][NextDegraded]_vars

\* Every operation that checks the flag before its command, beside
\* GET /health, from the unopened connections on.
NextLazy ==
  \/ NextAdmin
  \/ \E i \in DiagnosticSlot : CallSetCache(i, OneUserKey)
  \/ \E i \in Slots : SetCacheReply(i)
  \/ \E i \in Slots : SetCacheFail(i)
  \/ \E i \in DiagnosticSlot : CallGetCache(i, OneUserKey)
  \/ \E i \in Slots : GetCacheReply(i)
  \/ \E i \in Slots : GetCacheFail(i)

SpecLazy == Init /\ [][NextLazy]_vars

\* Keys generateCacheKey derives for GET /users/a, GET /users/b, GET /users
\* and GET /playlists/p, and for GET /users/a with a query string.
FrameKeys ==
  {generateCacheKey("GET", OriginalUrl("user", <<"a">>), <<>>, "user"),
   generateCacheKey("GET", OriginalUrl("user", <<"b">>), <<>>, "user"),
   generateCacheKey("GET", OriginalUrl("users_list", <<>>), <<>>, "users_list"),
   generateCacheKey("GET", OriginalUrl("playlist", <<"p">>), <<>>, "playlist")}

QueryKey ==
  generateCacheKey("GET", WithQuery(OriginalUrl("user", <<"a">>), <<"v", "=", "1">>),
                   ParseQs(<<"v", "=", "1">>), "user")

\* PATCH /users/:id over a store that holds entries of several routes.
NextFrame ==
  \/ Environment
  \/ ForeignWrite(FrameKeys)
  \/ \E i \in Slots : ArrivePatch(i, OneUser, {ValidUpdate})
  \/ Invalidation

SpecFrame == Init /\ [][NextFrame]_vars

\* GET and PATCH /users/:id with a second key of the identifier written
\* by another client.
NextCount ==
  \/ Environment
  \/ ForeignWrite({QueryKey})
  \/ \E i \in Slots : ArriveCached(i, {"user"}, OneUser)
  \/ Interceptor
  \/ \E i \in Slots : ArrivePatch(i, OneUser, {ValidUpdate})
  \/ Invalidation

SpecCount == Init /\ [][NextCount]_vars

\* GET /users with its query strings.
NextList ==
  \/ Environment
  \/ \E i \in Slots : ArriveCached(i, {"users_list"}, {})
  \/ Interceptor

SpecList == Init /\ [][NextList]_vars

----------------------------------------------------------------------------
\* Properties of the user routes (Spec)

\* A GET request behind the interceptor that the bypass checks let through.
IsGet(r) == r.kind = "cached" /\ r.method = "GET"

\* The step completes the lookup of the request in slot j with an answer
\* of the store (cache.get resolved).
LookupAnswered(j) == reqs[j].pc = "get" /\ reqs'[j].pc # "get" /\ StoreUp

\* The step completes the lookup of the request in slot j with a failure
\* (cache.get rejected).
LookupFailed(j) == reqs[j].pc = "get" /\ reqs'[j].pc # "get" /\ ~StoreUp

\* The request in slot i was answered MISS and the write it scheduled has
\* executed, and the entry it wrote is still the entry under its key.
WroteEntry(i) ==
  /\ IsGet(reqs[i]) /\ reqs[i].pc = "done" /\ reqs[i].xcache = "MISS"
  /\ reqs[i].wr = "ok"
  /\ KeyOf(reqs[i]) \in DOMAIN store
  /\ store[KeyOf(reqs[i])] = WriteEntry(reqs[i])

\* C1: with the store available and no entry under the derived key a GET
\* is answered MISS; an identical GET whose lookup is answered while the
\* entry written for the first one is in the store is answered HIT, with
\* the same X-Cache-Key and a payload equal to the body of the first
\* response.
C1_MissThenHitStep ==
  \A j \in Slots :
    LookupAnswered(j) =>
      /\ KeyOf(reqs[j]) \notin DOMAIN store =>
            /\ reqs'[j].xcache = "MISS"
            /\ reqs'[j].xkey = KeyOf(reqs[j])
      /\ \A i \in Slots :
            (WroteEntry(i) /\ KeyOf(reqs[i]) = KeyOf(reqs[j])) =>
              /\ reqs'[j].pc = "done"
              /\ reqs'[j].xcache = "HIT"
              /\ reqs'[j].xkey = reqs[i].xkey
              /\ reqs'[j].body = reqs[i].body
              /\ reqs'[j].status = reqs[i].status

C1_MissThenHit == [][C1_MissThenHitStep]_vars

\* A first response MISS whose write executed, and a second, identical
\* request answered HIT with the same body.
C1_Witness ==
  \E i, j \in Slots :
    /\ i # j /\ WroteEntry(i)
    /\ IsGet(reqs[j]) /\ reqs[j].pc = "done" /\ reqs[j].xcache = "HIT"
    /\ KeyOf(reqs[j]) = KeyOf(reqs[i])
    /\ reqs[j].body = reqs[i].body

\* C2 as stated: after a completed invalidation of an identifier's keys
\* the next GET for the identifier is never answered from the cache,
\* whatever GETs came before, also those whose deferred write was still
\* pending when the invalidation ran.
C2_NextGetNeverHit ==
  \A j \in Slots :
    (IsGet(reqs[j]) /\ reqs[j].pc = "done" /\ reqs[j].inv # "none")
      => reqs[j].xcache # "HIT"

\* C2 amended: after an invalidation that found the store available and
\* did not fail, the next GET for the identifier whose lookup is answered
\* yields MISS, provided no write to a key of the pattern has executed
\* since the invalidation enumerated the keys.
C2_NextGetMissUnlessWritten ==
  \A j \in Slots :
    (IsGet(reqs[j]) /\ reqs[j].pc = "done" /\ reqs[j].inv = "clean")
      => /\ reqs[j].xcache \in {"MISS", "SKIP", "ERROR"}
         /\ reqs[j].xcache = "ERROR" => reqs[j].cachedResponse = None

\* An invalidation that deleted the entry, and the next GET answered MISS.
C2_Witness ==
  \E i, j \in Slots :
    /\ reqs[i].kind = "patch" /\ reqs[i].pc = "done" /\ reqs[i].ret = 1
    /\ reqs[i].followed /\ ~reqs[i].dirty
    /\ IsGet(reqs[j]) /\ reqs[j].pc = "done" /\ reqs[j].id = reqs[i].id
    /\ reqs[j].inv = "clean" /\ reqs[j].xcache = "MISS"

\* The step answers the request in slot j (its response is handed to the
\* client in this step).
Answered(j) ==
  /\ reqs'[j].pc = "done" /\ reqs'[j] # reqs[j]
  /\ reqs[j].wr # "scheduled"

\* The response of the GET /users/:id handler for the request.
UserResponse(r) == r.status = 200 /\ r.body = UserPayload([r EXCEPT !.xcache = "MISS"])

\* C3: while the store is disconnected every GET on a cacheable route is
\* answered 200 with the handler's payload and X-Cache SKIP or ERROR, and
\* no GET is ever answered with an error response.
C3_DisconnectedStep ==
  \A j \in Slots :
    (Answered(j) /\ IsGet(reqs'[j]) /\ ~StoreUp) =>
      /\ reqs'[j].xcache \in {"SKIP", "ERROR"}
      /\ reqs'[j].handlerCalls = 1
      /\ UserResponse(reqs'[j])

C3_AlwaysServed ==
  \A j \in Slots :
    (IsGet(reqs[j]) /\ reqs[j].pc = "done") => UserResponse(reqs[j])

C3_DisconnectedStillServes == []C3_AlwaysServed /\ [][C3_DisconnectedStep]_vars

\* With the store down, one GET answered ERROR (flag still set, lookup
\* rejected) and one answered SKIP (flag cleared), both 200.
C3_Witness ==
  /\ ~StoreUp
  /\ \E i, j \in Slots :
       /\ IsGet(reqs[i]) /\ reqs[i].pc = "done" /\ reqs[i].xcache = "ERROR"
       /\ reqs[i].status = 200
       /\ IsGet(reqs[j]) /\ reqs[j].pc = "done" /\ reqs[j].xcache = "SKIP"
       /\ reqs[j].status = 200

\* C6: when the store returns a value for the derived key the interceptor
\* answers with the stored value, sets X-Cache: HIT and X-Cache-Key, and
\* the downstream handler is never invoked for the request.
C6_HitStep ==
  \A j \in Slots :
    (/\ LookupAnswered(j)
     /\ KeyOf(reqs[j]) \in DOMAIN store
     /\ Parseable(store[KeyOf(reqs[j])].val)) =>
      /\ reqs'[j].pc = "done"
      /\ reqs'[j].xcache = "HIT"
      /\ reqs'[j].xkey = KeyOf(reqs[j])
      /\ reqs'[j].body = Parse(store[KeyOf(reqs[j])].val)
      /\ reqs'[j].handlerCalls = 0

C6_HitNeverHandled ==
  \A j \in Slots :
    reqs[j].xcache = "HIT" =>
      /\ reqs[j].handlerCalls = 0
      /\ reqs[j].wr = "none"
      /\ reqs[j].pc = "done"

C6_HitShortCircuits == []C6_HitNeverHandled /\ [][C6_HitStep]_vars

\* A request answered HIT with the parsed stored value.
C6_Witness ==
  \E j \in Slots :
    /\ IsGet(reqs[j]) /\ reqs[j].xcache = "HIT" /\ reqs[j].pc = "done"
    /\ reqs[j].cachedResponse # None
    /\ reqs[j].body = Parse(reqs[j].cachedResponse)

\* C7: on a MISS the payload goes to the original terminator in the step
\* that schedules the store write; the write executes in a later step
\* and neither its success nor its failure changes the response.
C7_WriteStep ==
  \A i \in Slots :
    /\ (reqs[i].wr # "scheduled" /\ reqs'[i].wr = "scheduled") =>
          /\ reqs'[i].pc = "done"
          /\ reqs'[i].status # 0
          /\ reqs'[i].body = reqs'[i].wrData
          /\ store' = store
    /\ (reqs[i].wr = "scheduled" /\ reqs'[i].wr # "scheduled") =>
          /\ reqs'[i].pc = reqs[i].pc
          /\ reqs'[i].status = reqs[i].status
          /\ reqs'[i].body = reqs[i].body
          /\ reqs'[i].xcache = reqs[i].xcache
          /\ reqs'[i].xkey = reqs[i].xkey

C7_ScheduledIsAnswered ==
  \A i \in Slots :
    reqs[i].wr = "scheduled" => (reqs[i].pc = "done" /\ reqs[i].status # 0)

C7_WriteAfterResponse == []C7_ScheduledIsAnswered /\ [][C7_WriteStep]_vars

\* A MISS answered whose write has failed, and one whose write is still
\* pending: both responses are complete.
C7_Witness ==
  \E i, j \in Slots :
    /\ reqs[i].xcache = "MISS" /\ reqs[i].wr = "failed" /\ reqs[i].status = 200
    /\ reqs[j].xcache = "MISS" /\ reqs[j].wr = "scheduled" /\ reqs[j].status = 200

\* C8: when the lookup, or the parse of the stored value, throws, the
\* interceptor sets X-Cache: ERROR, invokes the handler exactly once and
\* the request completes with the handler's response.
C8_ErrorStep ==
  \A j \in Slots :
    (\/ LookupFailed(j)
     \/ /\ LookupAnswered(j)
        /\ KeyOf(reqs[j]) \in DOMAIN store
        /\ ~Parseable(store[KeyOf(reqs[j])].val)) =>
      /\ reqs'[j].pc = "done"
      /\ reqs'[j].xcache = "ERROR"
      /\ reqs'[j].handlerCalls = 1
      /\ UserResponse(reqs'[j])

C8_ErrorHandledOnce ==
  \A j \in Slots :
    reqs[j].xcache = "ERROR" => (reqs[j].handlerCalls = 1 /\ reqs[j].pc = "done")

C8_ErrorFallsThrough == []C8_ErrorHandledOnce /\ [][C8_ErrorStep]_vars

\* One request ERROR after a rejected lookup, one ERROR after a stored
\* text that does not parse.
C8_Witness ==
  \E i, j \in Slots :
    /\ reqs[i].xcache = "ERROR" /\ reqs[i].cachedResponse = None
    /\ reqs[i].status = 200
    /\ reqs[j].xcache = "ERROR" /\ reqs[j].cachedResponse = ForeignText
    /\ reqs[j].status = 200

----------------------------------------------------------------------------
\* Properties of the bypass path (SpecMw)

\* The request met one of the three bypass conditions when it arrived.
Bypassed(r) ==
  /\ r.kind = "cached"
  /\ (r.method # "GET" \/ RouteOptions(r.route).skipCache \/ ~r.availAtEntry)

\* C9: in BYPASS the interceptor issues no store command, neither a
\* lookup nor a later write, and invokes the handler exactly once.
C9_BypassNoStoreOp ==
  \A i \in Slots :
    Bypassed(reqs[i]) =>
      /\ reqs[i].pc = "done"
      /\ reqs[i].lookups = 0
      /\ reqs[i].cachedResponse = None
      /\ ~reqs[i].jsonOverridden
      /\ reqs[i].wr = "none"
      /\ reqs[i].handlerCalls = 1

\* A POST and a GET on a skipCache route, both arrived with the flag set
\* and entries in the store, both handled without a store command.
C9_Witness ==
  /\ redisAvailable /\ StoreUp /\ store # <<>>
  /\ \E i, j \in Slots :
       /\ reqs[i].kind = "cached" /\ reqs[i].method = "POST"
       /\ reqs[i].availAtEntry /\ reqs[i].status = 201
       /\ reqs[j].kind = "cached" /\ reqs[j].route = "skip"
       /\ reqs[j].availAtEntry /\ reqs[j].status = 200

\* C10 as stated: every bypassed request carries X-Cache: SKIP.
C10_BypassAlwaysMarked ==
  \A i \in Slots : Bypassed(reqs[i]) => reqs[i].xcache = "SKIP"

\* C10 amended: a bypassed request carries X-Cache: SKIP exactly when it
\* is a GET on a route that did not set skipCache and the flag was false;
\* a non-GET request and a request on a skipCache route carry no X-Cache
\* header; no bypassed request carries X-Cache-Key.
C10_SkipOnlyWhenUnavailable ==
  \A i \in Slots :
    Bypassed(reqs[i]) =>
      /\ reqs[i].xkey = <<>>
      /\ reqs[i].xcache =
            IF reqs[i].method # "GET" \/ RouteOptions(reqs[i].route).skipCache
            THEN "" ELSE "SKIP"

\* A POST answered without a marker, beside a GET that arrived with the
\* flag false and is marked SKIP.
C10_Witness ==
  \E i, j \in Slots :
    /\ reqs[i].kind = "cached" /\ reqs[i].method = "POST"
    /\ reqs[i].pc = "done" /\ reqs[i].xcache = ""
    /\ reqs[j].kind = "cached" /\ reqs[j].route = "user"
    /\ ~reqs[j].availAtEntry /\ reqs[j].pc = "done" /\ reqs[j].xcache = "SKIP"

----------------------------------------------------------------------------
\* Properties of the playlist route (SpecPlaylist)

\* C5: a failed handler's output is never cached: when the handler of a
\* MISS request answers with an error status, no write of that payload
\* is scheduled or executed under the request's key.
C5_FailedNeverCached ==
  \A i \in Slots :
    (reqs[i].kind = "cached" /\ reqs[i].status >= 400)
      => reqs[i].wr \notin {"scheduled", "ok"}

----------------------------------------------------------------------------
\* Properties of the diagnostic endpoints (SpecAdmin)

\* C4 as stated: no response is ever a 5xx.
C4_NeverServerError ==
  \A i \in Slots : reqs[i].status < 500

\* C4 amended: a failed store command never produces a 5xx in the
\* interceptor, in invalidateCache called from PATCH /users/:id, or in
\* getCacheStats called from GET /health; GET /cache/stats and
\* DELETE /cache/clear answer 500 when their store command fails, and
\* only then.
C4_ServerErrorOnlyFromDiagnostics ==
  \A i \in Slots :
    /\ reqs[i].kind \in {"cached", "patch", "health"} => reqs[i].status \in {0, 200}
    /\ reqs[i].kind \in {"stats", "clear"} =>
          (reqs[i].status = 500 <=> reqs[i].threw)

\* A PATCH answered 200 although invalidateCache threw, while
\* GET /cache/stats answered 500 because getCacheStats threw.
C4_Witness ==
  \E i, j \in Slots :
    /\ reqs[i].kind = "patch" /\ reqs[i].threw /\ reqs[i].status = 200
    /\ reqs[j].kind = "stats" /\ reqs[j].threw /\ reqs[j].status = 500

----------------------------------------------------------------------------
\* Properties of the write requests and of validation (SpecUsers)

\* C11: a response to a POST or PATCH request never carries an X-Cache or
\* an X-Cache-Key header, whatever the store state and whatever was cached
\* before.
C11_WritesCarryNoMarker ==
  \A i \in Slots :
    reqs[i].method \in {"POST", "PATCH"} =>
      reqs[i].xcache = "" /\ reqs[i].xkey = <<>>

\* With the flag set and an entry in the store, a POST through the
\* interceptor answered 201 beside a PATCH answered 200, both unmarked.
C11_Witness ==
  /\ redisAvailable /\ store # <<>>
  /\ \E i, j \in Slots :
       /\ reqs[i].kind = "cached" /\ reqs[i].method = "POST"
       /\ reqs[i].availAtEntry /\ reqs[i].status = 201 /\ reqs[i].xcache = ""
       /\ reqs[j].kind = "patch" /\ reqs[j].availAtEntry
       /\ reqs[j].status = 200 /\ reqs[j].xcache = ""

\* An answered GET on a route registered with the interceptor.
AnsweredGet(r) == r.kind = "cached" /\ r.method = "GET" /\ r.pc = "done"

\* C12 as stated: every response to a GET on a cacheable route carries
\* X-Cache with one of MISS, HIT, SKIP, ERROR and X-Cache-Key with the
\* derived key.
C12_EveryGetCarriesBoth ==
  \A i \in Slots :
    AnsweredGet(reqs[i]) =>
      /\ reqs[i].xcache \in {"MISS", "HIT", "SKIP", "ERROR"}
      /\ reqs[i].xkey = KeyOf(reqs[i])

\* C12 amended: a GET that validation let through to the interceptor is
\* answered with X-Cache one of MISS, HIT, SKIP, ERROR; X-Cache-Key is
\* set, to the derived key, exactly in the MISS and HIT outcomes; a GET
\* rejected by validation carries neither header.
C12_KeyOnlyOnMissAndHit ==
  \A i \in Slots :
    AnsweredGet(reqs[i]) =>
      IF reqs[i].nextErr
      THEN reqs[i].xcache = "" /\ reqs[i].xkey = <<>>
      ELSE /\ reqs[i].xcache \in {"MISS", "HIT", "SKIP", "ERROR"}
           /\ reqs[i].xkey = IF reqs[i].xcache \in {"MISS", "HIT"}
                             THEN KeyOf(reqs[i]) ELSE <<>>

\* A HIT carrying the key beside an ERROR (failed lookup) carrying none.
C12_Witness ==
  \E i, j \in Slots :
    /\ AnsweredGet(reqs[i]) /\ reqs[i].xcache = "HIT"
    /\ reqs[i].xkey = KeyOf(reqs[i]) /\ reqs[i].xkey # <<>>
    /\ AnsweredGet(reqs[j]) /\ reqs[j].xcache = "ERROR"
    /\ reqs[j].lookups = 1 /\ reqs[j].xkey = <<>>

----------------------------------------------------------------------------
\* Properties of the key derivation (SpecList)

\* The value of a parameter in a parsed query (undefined when absent).
QueryValue(q, name) ==
  IF \E k \in 1..Len(q) : q[k][1] = name
  THEN <<q[CHOOSE k \in 1..Len(q) : q[k][1] = name][2]>>
  ELSE <<>>

QueryNames(q) == {q[k][1] : k \in 1..Len(q)}

\* The two queries differ in the value of some parameter.
DifferInValue(q1, q2) ==
  \E name \in QueryNames(q1) \cup QueryNames(q2) :
    QueryValue(q1, name) # QueryValue(q2, name)

\* The key of GET /users with the raw query string.
ListKey(raw) ==
  generateCacheKey("GET", WithQuery(OriginalUrl("users_list", <<>>), raw),
                   ParseQs(raw), RouteOptions("users_list").keyPrefix)

\* C13: generateCacheKey is deterministic and injective on the query: two
\* requests with the same method, URL, query and prefix get the same key
\* (in X-Cache-Key and in the store), and two requests to the same path
\* whose queries differ in the value of a parameter get different keys.
C13_KeyDeterministicInjective ==
  /\ \A a, b \in ListQueries :
       DifferInValue(ParseQs(a), ParseQs(b)) => ListKey(a) # ListKey(b)
  /\ \A i, j \in Slots :
       (reqs[i].xkey # <<>> /\ reqs[j].xkey # <<>> /\ reqs[i].route = reqs[j].route) =>
         /\ reqs[i].query = reqs[j].query => reqs[i].xkey = reqs[j].xkey
         /\ DifferInValue(ParseQs(reqs[i].query), ParseQs(reqs[j].query))
              => reqs[i].xkey # reqs[j].xkey
  /\ \A i \in Slots :
       reqs[i].wr = "ok" => reqs[i].xkey = ListKey(reqs[i].query)

\* /users?page=1&limit=5 and /users?page=2&limit=5 both answered MISS and
\* written: two entries under two keys, each with its own page.
C13_Witness ==
  \E i, j \in Slots :
    /\ reqs[i].query = <<"page", "=", "1", "&", "limit", "=", "5">>
    /\ reqs[j].query = <<"page", "=", "2", "&", "limit", "=", "5">>
    /\ reqs[i].wr = "ok" /\ reqs[j].wr = "ok"
    /\ reqs[i].xkey # reqs[j].xkey
    /\ {reqs[i].xkey, reqs[j].xkey} \subseteq DOMAIN store
    /\ Parse(store[reqs[i].xkey].val).page = "1"
    /\ Parse(store[reqs[j].xkey].val).page = "2"

----------------------------------------------------------------------------
\* Properties of two identifiers under one route (SpecTwo)

\* The key of GET /users/:id.
UserKey(id) == generateCacheKey("GET", OriginalUrl("user", id), <<>>, "user")

\* The entry of the store under a key, or null.
EntryAt(st, key) == IF key \in DOMAIN st THEN st[key].val ELSE None

\* Every entry under the key of an identifier is a payload of that
\* identifier, and every HIT is answered with the payload of the
\* identifier asked for.
C14_EntriesBelongToTheirId ==
  /\ \A a, b \in UserIds : a # b => UserKey(a) # UserKey(b)
  /\ \A a \in UserIds :
       UserKey(a) \in DOMAIN store => Parse(store[UserKey(a)].val).userId = a
  /\ \A i \in Slots :
       (IsGet(reqs[i]) /\ reqs[i].xcache = "HIT") => reqs[i].body.userId = reqs[i].id

\* A step of a GET for one identifier leaves the entry of every other
\* identifier as it was, and its lookup is a HIT exactly when an entry
\* exists under its own key.
C14_GetStep ==
  \A j \in Slots :
    (reqs'[j] # reqs[j] /\ IsGet(reqs'[j])) =>
      /\ \A a \in UserIds \ {reqs'[j].id} :
           EntryAt(store', UserKey(a)) = EntryAt(store, UserKey(a))
      /\ LookupAnswered(j) =>
           (reqs'[j].xcache = "HIT" <=> UserKey(reqs[j].id) \in DOMAIN store)

\* C14: two identifiers under the same route have independent entries: a
\* GET for B never changes what a later GET for A finds, and a GET for B
\* is a MISS when B has no entry even though A is cached.
C14_IndependentEntries == []C14_EntriesBelongToTheirId /\ [][C14_GetStep]_vars

\* A is cached and served as a HIT while the GET for B was a MISS whose
\* write has not run yet: the store holds A's entry and none for B.
C14_Witness ==
  \E i, j \in Slots :
    /\ reqs[i].id = <<"a">> /\ IsGet(reqs[i]) /\ reqs[i].xcache = "HIT"
    /\ reqs[j].id = <<"b">> /\ IsGet(reqs[j]) /\ reqs[j].xcache = "MISS"
    /\ reqs[j].wr = "scheduled"
    /\ UserKey(<<"a">>) \in DOMAIN store /\ UserKey(<<"b">>) \notin DOMAIN store

\* A PATCH that validation let through, i.e. a call of invalidateCache.
IsInvalidation(r) == r.kind = "patch" /\ ~r.nextErr

\* With the flag false invalidateCache returns 0 at once: the request is
\* never waiting for a store command.
C15_UnavailableReturnsZero ==
  \A i \in Slots :
    (IsInvalidation(reqs[i]) /\ ~reqs[i].availAtEntry) =>
      reqs[i].pc = "done" /\ reqs[i].ret = 0 /\ ~reqs[i].threw /\ reqs[i].keys = {}

\* The steps of invalidateCache with the store answering: the enumeration
\* finds exactly the keys of the pattern and changes nothing; with no key
\* 0 is returned; the deletion removes the enumerated keys, nothing else,
\* and the count of removed keys is returned.
C15_InvalidateStep ==
  \A i \in Slots :
    (IsInvalidation(reqs[i]) /\ reqs'[i].kind = "patch" /\ ~reqs'[i].threw) =>
      /\ (reqs[i].pc = "keys" /\ reqs'[i].pc = "del") =>
            /\ reqs'[i].keys = DOMAIN store \cap {UserKey(reqs[i].id)}
            /\ reqs'[i].keys # {}
            /\ store' = store
      /\ (reqs[i].pc = "keys" /\ reqs'[i].pc = "done") =>
            /\ UserKey(reqs[i].id) \notin DOMAIN store
            /\ reqs'[i].ret = 0
            /\ store' = store
      /\ (reqs[i].pc = "del" /\ reqs'[i].pc = "done") =>
            /\ DOMAIN store' = DOMAIN store \ reqs[i].keys
            /\ \A k \in DOMAIN store' : store'[k] = store[k]
            /\ reqs'[i].ret = Cardinality(DOMAIN store) - Cardinality(DOMAIN store')

\* C15: invalidateCache(pattern) returns 0 without issuing a store command
\* when the availability flag is false; when the store is available it
\* enumerates the keys matching the pattern, deletes them and returns the
\* number of keys deleted (0 when nothing matches).
C15_InvalidateCounts == []C15_UnavailableReturnsZero /\ [][C15_InvalidateStep]_vars

\* An invalidation that deleted the one entry of its identifier and left
\* the entry of the other identifier, beside one that returned 0 because
\* the flag was false.
C15_Witness ==
  \E i, j \in Slots :
    /\ IsInvalidation(reqs[i]) /\ reqs[i].availAtEntry /\ reqs[i].pc = "done"
    /\ reqs[i].ret = 1 /\ reqs[i].id = <<"a">>
    /\ UserKey(<<"a">>) \notin DOMAIN store /\ UserKey(<<"b">>) \in DOMAIN store
    /\ IsInvalidation(reqs[j]) /\ ~reqs[j].availAtEntry /\ reqs[j].pc = "done"
    /\ reqs[j].ret = 0

----------------------------------------------------------------------------
\* Properties of getCacheStats (SpecAdmin)

\* A request whose handler calls getCacheStats.
CallsStats(r) == r.kind \in {"health", "stats"}

InfoPcs == {"info-memory", "info-keyspace", "info-stats"}

\* C16 as stated: getCacheStats never throws.
C16_StatsNeverThrows ==
  \A i \in Slots : CallsStats(reqs[i]) => ~reqs[i].threw

\* getCacheStats called from GET /cache/stats with the flag false returns
\* the zeroed result at once: the request never waits for an info command.
C16_UnavailableIsZeroed ==
  \A i \in Slots :
    (reqs[i].kind = "stats" /\ ~reqs[i].availAtEntry) =>
      /\ reqs[i].pc = "done" /\ ~reqs[i].threw
      /\ reqs[i].stats = ZeroStats /\ reqs[i].status = 200

\* The steps of getCacheStats: called from GET /health (after the pings)
\* it returns the zeroed result at once when the flag is false and issues
\* cache.info otherwise; it throws exactly when an info command fails.
C16_StatsStep ==
  \A i \in Slots :
    CallsStats(reqs[i]) =>
      /\ (reqs[i].pc = "ping" /\ reqs'[i] # reqs[i]) =>
            IF redisAvailable
            THEN reqs'[i].pc = "info-memory"
            ELSE /\ reqs'[i].pc = "done" /\ ~reqs'[i].threw
                 /\ reqs'[i].stats = ZeroStats
      /\ (reqs[i].pc \in InfoPcs /\ reqs'[i] # reqs[i]) =>
            (reqs'[i].threw <=> ~StoreUp)
      /\ (reqs[i].pc \notin InfoPcs /\ reqs'[i].threw /\ CallsStats(reqs'[i])) =>
            reqs'[i] = reqs[i]

\* C16 amended: with the flag false getCacheStats returns the zeroed
\* result without contacting the store; when an introspection command
\* fails it rethrows the failure.
C16_ThrowsOnlyOnFailedInfo == []C16_UnavailableIsZeroed /\ [][C16_StatsStep]_vars

\* GET /cache/stats arrived with the flag set, an info command failed and
\* getCacheStats threw.
C16_Witness ==
  \E i \in Slots :
    /\ reqs[i].kind = "stats" /\ reqs[i].availAtEntry
    /\ reqs[i].threw /\ reqs[i].pc = "done"

----------------------------------------------------------------------------
\* Properties of GET /health and of the availability flag (SpecHealth)

\* Every answer of GET /health is 200 with status 'ok', a redis field with
\* the three connections and a cache field; when getCacheStats threw, the
\* cache field is the zeroed statistics.
C17_HealthAnswer ==
  \A i \in Slots :
    (reqs[i].kind = "health" /\ reqs[i].pc = "done") =>
      /\ reqs[i].status = 200
      /\ {"status", "redis", "cache"} \subseteq DOMAIN reqs[i].body
      /\ reqs[i].body.status = "ok"
      /\ DOMAIN reqs[i].body.redis = {"cache", "logs", "pubsub"}
      /\ reqs[i].body.redis.cache \in BOOLEAN
      /\ reqs[i].threw => reqs[i].body.cache = ZeroStats
      /\ ~reqs[i].threw => reqs[i].body.redis = reqs[i].pong

\* healthCheck reports, for each connection, whether its ping returned
\* PONG, i.e. whether the connection is established when the pings settle.
C17_PingStep ==
  \A i \in Slots :
    (reqs[i].kind = "health" /\ reqs[i].pc = "ping" /\ reqs'[i] # reqs[i]) =>
      /\ reqs'[i].pong.cache = (cacheStatus = "ready")
      /\ reqs'[i].pong.logs = (peerStatus["logs"] = "ready")
      /\ reqs'[i].pong.pubsub = (peerStatus["pubsub"] = "ready")

\* C17: GET /api/health always answers 200 with status 'ok' and the fields
\* redis {cache, logs, pubsub} and cache, whatever the store state:
\* healthCheck reports false for each connection whose ping does not
\* return PONG, and a failure of getCacheStats is replaced by the zeroed
\* statistics.
C17_HealthAlwaysOk == []C17_HealthAnswer /\ [][C17_PingStep]_vars

\* A /health answered 200 with the zeroed statistics after its pings to
\* the cache and the pub/sub connection returned PONG, the one to the logs
\* connection did not, and getCacheStats threw.
C17_Witness ==
  \E i \in Slots :
    /\ reqs[i].kind = "health" /\ reqs[i].pc = "done" /\ reqs[i].threw
    /\ reqs[i].pong.cache /\ ~reqs[i].pong.logs /\ reqs[i].pong.pubsub
    /\ reqs[i].status = 200 /\ reqs[i].body.cache = ZeroStats

----------------------------------------------------------------------------
\* Properties of the cache management endpoints (SpecEnv)

\* A request to GET /cache/stats or DELETE /cache/clear.
IsManagement(r) == r.kind \in {"stats", "clear"}

\* C18: the cache management endpoints exist only when the environment is
\* 'development': in 'production' or 'test' a request to them ends in the
\* 404 handler and issues no store command (it is never waiting for one);
\* in development DELETE /cache/clear answers deleted = 0 and issues no
\* store command when the availability flag is false.
C18_ManagementOnlyInDevelopment ==
  \A i \in Slots :
    /\ (IsManagement(reqs[i]) /\ nodeEnv \in {"production", "test"}) =>
          /\ reqs[i].pc = "done" /\ reqs[i].status = 404
          /\ reqs[i].body.status = "error"
          /\ reqs[i].keys = {} /\ ~reqs[i].threw
    /\ (reqs[i].kind = "clear" /\ nodeEnv = "development" /\ ~reqs[i].availAtEntry) =>
          /\ reqs[i].pc = "done" /\ reqs[i].status = 200
          /\ reqs[i].body.deleted = 0
          /\ reqs[i].keys = {} /\ ~reqs[i].threw
    /\ (IsManagement(reqs[i]) /\ nodeEnv = "development") => reqs[i].status # 404

\* In production, with the flag set and an entry in the store,
\* DELETE /cache/clear was answered 404 and the entry is still there.
C18_Witness ==
  /\ nodeEnv = "production" /\ redisAvailable /\ store # <<>>
  /\ \E i \in Slots :
       /\ reqs[i].kind = "clear" /\ reqs[i].availAtEntry
       /\ reqs[i].pc = "done" /\ reqs[i].status = 404

----------------------------------------------------------------------------
\* Properties of validation (SpecUsers)

\* A request on a route registered with validate(schema).
IsValidated(r) ==
  \/ r.kind = "cached" /\ r.route = "user"
  \/ r.kind \in {"patch", "create"}

\* Whether the request satisfies the schema of its route.
SatisfiesSchema(r) ==
  CASE r.kind = "create" -> createUserSchema(r)
    [] r.kind = "patch"  -> updateUserSchema(r)
    [] OTHER             -> getUserSchema(r)

\* C19: validate(schema) calls next exactly once per request, without
\* argument when the request satisfies the schema and with a 400 error
\* otherwise; in the failing case nothing later of the route runs (no
\* store command, no X-Cache marker, no handler) and the client receives
\* status 400 with body status 'error'.
C19_ValidateCallsNextOnce ==
  \A i \in Slots :
    IsValidated(reqs[i]) =>
      /\ reqs[i].nextCalls = 1
      /\ reqs[i].nextErr <=> ~SatisfiesSchema(reqs[i])
      /\ reqs[i].nextErr =>
            /\ reqs[i].pc = "done" /\ reqs[i].status = 400
            /\ reqs[i].body.status = "error"
            /\ reqs[i].lookups = 0 /\ reqs[i].keys = {} /\ reqs[i].wr = "none"
            /\ ~reqs[i].jsonOverridden
            /\ reqs[i].xcache = "" /\ reqs[i].xkey = <<>>
            /\ reqs[i].handlerCalls = 0
      /\ ~reqs[i].nextErr => reqs[i].status \in {0, 200, 201}

\* With the flag set and an entry in the store, a GET with a malformed
\* identifier answered 400 beside a PATCH with a too short username
\* answered 400, neither having touched the store.
C19_Witness ==
  /\ redisAvailable /\ StoreUp /\ store # <<>>
  /\ \E i, j \in Slots :
       /\ reqs[i].kind = "cached" /\ reqs[i].id = InvalidId
       /\ reqs[i].availAtEntry /\ reqs[i].status = 400
       /\ reqs[j].kind = "patch" /\ reqs[j].id \in UserIds
       /\ reqs[j].availAtEntry /\ reqs[j].status = 400

----------------------------------------------------------------------------
\* Properties of the availability flag (SpecHealth)

\* The flag is false initially and is true exactly when the last event of
\* the cache connection was 'connect'.
C20_FlagTracksLastEvent ==
  /\ redisAvailable <=> lastEvent = "connect"
  /\ redisAvailable => cacheStatus \in {"ready", "lost"}

\* A step that is not an event of the cache connection, in particular an
\* event of the logs or pub/sub connection, leaves the flag as it is; a
\* 'connect' event sets it, an 'error' or 'close' event clears it.
C20_FlagStep ==
  /\ peerStatus' # peerStatus => redisAvailable' = redisAvailable
  /\ redisAvailable' # redisAvailable =>
        /\ lastEvent' # lastEvent
        /\ redisAvailable' = (lastEvent' = "connect")
        /\ reqs' = reqs /\ store' = store

\* C20: the availability flag is false initially, becomes true exactly on
\* a 'connect' event of the cache connection and false on every 'error'
\* and 'close' event of that connection; in every reachable state it is
\* true only if the most recent of these events was 'connect', and events
\* of the logs and pub/sub connections never change it.
C20_FlagFollowsCacheEvents == []C20_FlagTracksLastEvent /\ [][C20_FlagStep]_vars

\* The cache connection connected, broke and emitted 'error': the flag is
\* false again, while the logs connection is up and the pub/sub
\* connection has broken.
C20_Witness ==
  /\ lastEvent = "error" /\ cacheStatus = "lost" /\ ~redisAvailable
  /\ peerStatus["logs"] = "ready" /\ peerStatus["pubsub"] = "lost"

----------------------------------------------------------------------------
\* Properties of concurrent requests

\* Requests i and j are two GETs for the same key.
SameKey(i, j) ==
  /\ i # j /\ IsGet(reqs[i]) /\ IsGet(reqs[j])
  /\ RouteOptions(reqs[i].route).skipCache = FALSE
  /\ RouteOptions(reqs[j].route).skipCache = FALSE
  /\ KeyOf(reqs[i]) = KeyOf(reqs[j])

\* C21: there is no single-flight guarantee: a lookup that finds no entry
\* is a MISS that invokes the handler and, with the flag set, schedules
\* its own write, also while another request for the same key has missed
\* and has its write pending.
C21_NoSingleFlightStep ==
  \A i, j \in Slots :
    (/\ SameKey(i, j)
     /\ reqs[i].xcache = "MISS" /\ reqs[i].wr = "scheduled"
     /\ LookupAnswered(j) /\ KeyOf(reqs[j]) \notin DOMAIN store) =>
      /\ reqs'[j].xcache = "MISS"
      /\ reqs'[j].handlerCalls = 1
      /\ reqs'[j].jsonOverridden
      /\ redisAvailable => reqs'[j].wr = "scheduled"

C21_NoSingleFlight == [][C21_NoSingleFlightStep]_vars

\* Two GETs for the same key both answered MISS, both handled, and both
\* have written the key.
C21_Witness ==
  \E i, j \in Slots :
    /\ SameKey(i, j)
    /\ reqs[i].xcache = "MISS" /\ reqs[j].xcache = "MISS"
    /\ reqs[i].handlerCalls = 1 /\ reqs[j].handlerCalls = 1
    /\ reqs[i].wr = "ok" /\ reqs[j].wr = "ok"
    /\ reqs[i].xkey = reqs[j].xkey /\ reqs[i].xkey \in DOMAIN store

\* The request has a write scheduled or executed.
Writes(r) == r.wr \in {"scheduled", "ok"}

\* C22: the writes racing for one key carry identical payloads, so the
\* entry left by the last of them is what a fresh invocation returns.
C22_RacingWritesIdentical ==
  \A i, j \in Slots :
    (SameKey(i, j) /\ Writes(reqs[i]) /\ Writes(reqs[j])) =>
      reqs[i].wrData = reqs[j].wrData

\* A scheduled write stays scheduled with its key and payload until it
\* has run.
C23_NothingCancels ==
  \A i \in Slots :
    reqs[i].wr = "scheduled" =>
      /\ reqs'[i].wr \in {"scheduled", "ok", "failed"}
      /\ reqs'[i].wrData = reqs[i].wrData
      /\ KeyOf(reqs'[i]) = KeyOf(reqs[i])

\* C23: once the handler of a MISS request has produced its payload, the
\* scheduled write is eventually attempted and completes, with success or
\* with a logged failure, whether or not the client went away; nothing
\* cancels it.
C23_WriteRunsToCompletion ==
  /\ [][C23_NothingCancels]_vars
  /\ \A i \in Slots :
       (reqs[i].wr = "scheduled") ~> (reqs[i].wr \in {"ok", "failed"})

\* A client went away before its request's write had run, and the write
\* was executed all the same.
C23_Witness ==
  \E i \in Slots :
    /\ reqs[i].closed \in {"none", "scheduled"}
    /\ reqs[i].xcache = "MISS"
    /\ reqs[i].wr = "ok"
    /\ reqs[i].xkey \in DOMAIN store

----------------------------------------------------------------------------
\* Lifecycle of an entry

\* The step executes the write scheduled by the request in slot i.
WriteExecuted(i) == reqs[i].wr = "scheduled" /\ reqs'[i].wr = "ok"

\* The step completes the cache.del of the PATCH in slot i.
DelExecuted(i) ==
  /\ reqs[i].kind = "patch" /\ reqs[i].pc = "del" /\ reqs'[i].pc = "done"
  /\ StoreUp

\* The keys of the store, present before or after the step.
C24_Keys == DOMAIN store \cup DOMAIN store'

\* An entry appears or changes only through the write of a request that
\* was answered MISS after its handler ran, under the key the response
\* reported, as the whole serialised payload with the route's TTL.
C24_CreatedOnMiss ==
  \A k \in C24_Keys :
    (k \in DOMAIN store' /\ (k \notin DOMAIN store \/ store'[k] # store[k])) =>
      \E i \in Slots :
        /\ WriteExecuted(i)
        /\ reqs[i].xcache = "MISS" /\ reqs[i].handlerCalls = 1
        /\ reqs[i].pc = "done" /\ reqs[i].xkey = k
        /\ store'[k] = [val |-> Stringify(reqs[i].body),
                        ttl |-> RouteOptions(reqs[i].route).ttl]

\* An entry disappears only when its TTL ends or when the cache.del of an
\* invalidation that enumerated its key executes.
C24_RemovedByExpiryOrInvalidation ==
  \A k \in C24_Keys :
    (k \in DOMAIN store /\ k \notin DOMAIN store') =>
      \/ reqs' = reqs
      \/ \E i \in Slots : DelExecuted(i) /\ k \in reqs[i].keys

\* A lookup answered while the key has no entry is a MISS.
C24_MissWithoutEntry ==
  \A j \in Slots :
    (LookupAnswered(j) /\ KeyOf(reqs[j]) \notin DOMAIN store) =>
      reqs'[j].xcache = "MISS" /\ reqs'[j].xkey = KeyOf(reqs[j])

----------------------------------------------------------------------------
\* Degradation without the store

\* The response of an answered playlist request is what its handler sent.
HandlerAnswered(r) ==
  /\ r.handlerCalls = 1
  /\ r.pc = "done" =>
        \E o \in PlaylistOutcomes : r.status = o /\ r.body = PlaylistPayload(r, o)

\* With the flag false at arrival no lookup is issued, the handler runs
\* as on a miss and nothing is written; an invalidation returns 0 without
\* a command; a failed lookup, a failed write and a failed invalidation
\* leave the response to the handler.
C25_NoOpsWhenUnavailable ==
  \A i \in Slots :
    LET r == reqs[i]
    IN  /\ (IsGet(r) /\ ~r.nextErr /\ ~r.availAtEntry) =>
              /\ r.lookups = 0 /\ r.xcache = "SKIP" /\ r.cachedResponse = None
              /\ ~r.jsonOverridden /\ r.wr = "none"
              /\ HandlerAnswered(r)
        /\ (IsInvalidation(r) /\ ~r.availAtEntry) =>
              /\ r.pc = "done" /\ r.ret = 0 /\ ~r.threw /\ r.keys = {}
              /\ r.status = 200 /\ r.body = PatchPayload(r)
        /\ (IsGet(r) /\ r.xcache = "ERROR") =>
              ~r.jsonOverridden /\ r.wr = "none" /\ HandlerAnswered(r)
        /\ (IsGet(r) /\ r.wr = "failed") =>
              r.pc = "done" /\ HandlerAnswered(r) /\ r.body = r.wrData
        /\ (IsInvalidation(r) /\ r.threw) =>
              r.pc = "done" /\ r.status = 200 /\ r.body = PatchPayload(r)

\* The handler's res.json schedules no write while the flag is false, and
\* a failing write changes nothing of the answered request.
C25_WriteStep ==
  \A i \in Slots :
    /\ (IsGet(reqs[i]) /\ reqs[i].pc # "done" /\ reqs'[i].pc = "done"
         /\ IsGet(reqs'[i]) /\ ~redisAvailable) => reqs'[i].wr = "none"
    /\ (reqs[i].wr = "scheduled" /\ reqs'[i].wr = "failed") =>
          reqs'[i] = [reqs[i] EXCEPT !.wr = "failed"] /\ store' = store

\* C25: with the store unavailable a lookup is not issued, a write is
\* skipped when the flag is false as the handler calls res.json, an
\* invalidation returns 0; a command that fails because the flag changed
\* between the check and the command is not surfaced as a failure of the
\* request.
C25_DegradesToNoOps == []C25_NoOpsWhenUnavailable /\ [][C25_WriteStep]_vars

\* A GET missed, the flag went false before its handler called res.json
\* and no write was scheduled; a PATCH whose invalidation failed after the
\* check was answered 200.
C25_Witness ==
  \E i, j \in Slots :
    /\ IsGet(reqs[i]) /\ reqs[i].xcache = "MISS" /\ reqs[i].jsonOverridden
    /\ reqs[i].pc = "done" /\ reqs[i].wr = "none" /\ reqs[i].status = 200
    /\ IsInvalidation(reqs[j]) /\ reqs[j].availAtEntry /\ reqs[j].threw
    /\ reqs[j].status = 200

----------------------------------------------------------------------------
\* The unopened connection

\* While the cache connection is unopened the flag is false, nothing is
\* stored, no operation has issued or is waiting for a command, every
\* cacheable GET was answered SKIP, invalidations returned 0 and the
\* statistics are the zeroed ones.
C26_UnopenedStaysUnavailable ==
  cacheStatus = "wait" =>
    /\ ~redisAvailable /\ store = <<>> /\ lastEvent = "none"
    /\ \A i \in Slots :
         LET r == reqs[i]
         IN  /\ r.pc \in {"idle", "done"}
             /\ r.lookups = 0 /\ r.wr = "none" /\ ~r.threw /\ r.keys = {}
             /\ (IsGet(r) /\ ~r.nextErr) => r.xcache = "SKIP" /\ r.status = 200
             /\ IsInvalidation(r) => r.ret = 0
             /\ r.kind = "stats" => r.stats = ZeroStats
             /\ r.kind \in {"getCache", "setCache", "clear"} => r.ret = 0

\* The connection is opened only by a ping of healthCheck, and the flag
\* becomes true only by the connect event that follows.
C26_OpenStep ==
  /\ (cacheStatus = "wait" /\ cacheStatus' # "wait") =>
        /\ cacheStatus' = "connecting"
        /\ \/ reqs' = reqs
           \/ \E i \in Slots : /\ reqs'[i].kind = "health" /\ reqs'[i].pc = "ping"
                                /\ reqs[i].pc # "ping"
                                /\ \A k \in Slots \ {i} : reqs'[k] = reqs[k]
  /\ (~redisAvailable /\ redisAvailable') =>
        cacheStatus = "connecting" /\ cacheStatus' = "ready"

\* C26: with lazyConnect and every guarded operation returning before its
\* command while the flag is false, a run of these operations from the
\* initial state never opens the cache connection: the flag stays false
\* and every cacheable GET is SKIP; only the ping of healthCheck opens it.
C26_LazyNeverOpens == []C26_UnopenedStaysUnavailable /\ [][C26_OpenStep]_vars

\* The connection is still unopened after getCache returned null and a
\* cacheable GET was answered SKIP.
C26_Witness ==
  /\ cacheStatus = "wait"
  /\ \E i, j \in Slots :
       /\ reqs[i].kind = "getCache" /\ reqs[i].pc = "done"
       /\ IsGet(reqs[j]) /\ reqs[j].pc = "done" /\ reqs[j].xcache = "SKIP"

----------------------------------------------------------------------------
\* Status of a hit

----------------------------------------------------------------------------
\* The ERROR path and entries that cannot be parsed

\* A request answered ERROR has the handler's own res.json: it schedules
\* no write.
C28_ErrorNeverWrites ==
  \A i \in Slots :
    (IsGet(reqs[i]) /\ reqs[i].xcache = "ERROR") =>
      /\ ~reqs[i].jsonOverridden /\ reqs[i].wr = "none"
      /\ reqs[i].handlerCalls = 1

\* A lookup answered with text that cannot be parsed is ERROR and leaves
\* the store as it is.
C28_ErrorWhileUnparseable ==
  \A j \in Slots :
    (LookupAnswered(j) /\ KeyOf(reqs[j]) \in DOMAIN store
     /\ ~Parseable(store[KeyOf(reqs[j])].val)) =>
       reqs'[j].xcache = "ERROR" /\ reqs'[j].wr = "none" /\ store' = store

\* An entry that cannot be parsed stays as it is until it is removed.
C28_UnparseableKept ==
  \A k \in DOMAIN store :
    (~Parseable(store[k].val) /\ k \in DOMAIN store') => store'[k] = store[k]

C28_ReplacedOnlyByMiss ==
  \A k \in DOMAIN store :
    (~Parseable(store[k].val) /\ k \in DOMAIN store' /\ store'[k] # store[k]) =>
      \E i \in Slots :
        /\ WriteExecuted(i) /\ reqs[i].xkey = k
        /\ reqs[i].xcache = "MISS" /\ reqs[i].cachedResponse = None
        /\ store'[k] = WriteEntry(reqs[i])

----------------------------------------------------------------------------
\* What an invalidation touches

\* The step completes a store command of the invalidation in slot i.
InvalidationStep(i) ==
  /\ IsInvalidation(reqs[i]) /\ reqs[i].pc \in {"keys", "del"}
  /\ reqs'[i].pc # reqs[i].pc

\* The entry under the key is the same before and after the step.
Untouched(k) ==
  /\ k \in DOMAIN store <=> k \in DOMAIN store'
  /\ k \in DOMAIN store => store'[k] = store[k]

\* The text user:GET:/api/users/A for identifier A.
StartOfUserKeys(id) == <<"user", ":", "GET", ":", "/api/users/">> \o id

\* A command of the invalidation for an identifier leaves every entry
\* whose key does not start with the identifier's prefix as it is.
C29_OtherEntriesUntouched ==
  \A i \in Slots :
    InvalidationStep(i) =>
      \A k \in DOMAIN store \cup DOMAIN store' :
        ~IsPrefix(StartOfUserKeys(reqs[i].id), k) => Untouched(k)

\* A valid PATCH is answered 200 with its payload, also when the
\* invalidation failed.
C29_PatchAnswers200 ==
  \A i \in Slots :
    (IsInvalidation(reqs[i]) /\ reqs[i].pc = "done") =>
      reqs[i].status = 200 /\ reqs[i].body = PatchPayload(reqs[i])

\* C29: PATCH /users/:id for identifier A changes only entries whose key
\* starts with user:GET:/api/users/A; entries of another identifier, of
\* the user list and of other routes are left unchanged, and a failure of
\* the invalidation does not change the 200 response.
C29_PatchFrame == []C29_PatchAnswers200 /\ [][C29_OtherEntriesUntouched]_vars

\* A PATCH for a removed the entry of a and was answered 200 while the
\* entries of b, of the list and of the playlist are still there; another
\* PATCH whose invalidation failed was answered 200.
C29_Witness ==
  \E i, j \in Slots :
    /\ IsInvalidation(reqs[i]) /\ reqs[i].pc = "done" /\ reqs[i].ret = 1
    /\ reqs[i].status = 200
    /\ DOMAIN store = FrameKeys \ {UserKey(reqs[i].id)}
    /\ IsInvalidation(reqs[j]) /\ reqs[j].threw /\ reqs[j].status = 200

\* The enumeration records the matching keys and changes nothing; the
\* deletion removes the enumerated keys that are still there and nothing
\* else, and returns their number.
C30_KeysThenDel ==
  \A i \in Slots :
    (InvalidationStep(i) /\ ~reqs'[i].threw) =>
      /\ reqs[i].pc = "keys" =>
            /\ store' = store
            /\ reqs'[i].pc = "del" => reqs'[i].keys = StoreKeys(PatternOf(reqs[i]))
            /\ reqs'[i].pc = "done" => reqs'[i].ret = 0
      /\ reqs[i].pc = "del" =>
            /\ DOMAIN store' = DOMAIN store \ reqs[i].keys
            /\ \A k \in DOMAIN store' : store'[k] = store[k]
            /\ reqs'[i].ret = Cardinality(reqs[i].keys \cap DOMAIN store)
            /\ reqs'[i].ret <= Cardinality(reqs[i].keys)

\* A write that executes after the enumeration creates its entry and
\* changes no count already returned.
C30_LaterWriteKept ==
  \A j \in Slots :
    WriteExecuted(j) =>
      /\ KeyOf(reqs[j]) \in DOMAIN store'
      /\ \A i \in Slots \ {j} : reqs'[i].ret = reqs[i].ret

\* C30: invalidateCache enumerates and deletes in two commands; the count
\* it returns is the number of keys deleted, at most the number
\* enumerated, and a matching key written between the enumeration and the
\* deletion, or after the deletion by a pending write, is neither removed
\* nor counted.
C30_EnumerateThenDelete == [][C30_KeysThenDel /\ C30_LaterWriteKept]_vars

\* An invalidation deleted one key and returned 1 while a key of its
\* pattern written after its enumeration is in the store.
C30_Witness ==
  \E i \in Slots :
    /\ IsInvalidation(reqs[i]) /\ reqs[i].pc = "done" /\ reqs[i].ret = 1
    /\ reqs[i].dirty
    /\ \E k \in DOMAIN store : GlobMatch(PatternOf(reqs[i]), k)

====
